---------------------------- MODULE Spec2Model ----------------------------
(***************************************************************************)
(* Tag-number allocation, reconciliation and validation of the campaign    *)
(* administration server (POST /api/tags/generate, syncTagCounters,        *)
(* POST/PUT/DELETE /api/campaigns).                                        *)
(*                                                                         *)
(* A handler is an async function: between two of its awaits node serves   *)
(* other requests.  A request is therefore a sequence of steps: its        *)
(* arrival, which runs the handler up to its first call to the store, and  *)
(* one step for every store call, which runs the call and the handler up   *)
(* to the next one.  A sequential execution is one in which a request      *)
(* arrives only when every earlier request has been answered.              *)
(*                                                                         *)
(* A JavaScript string is a sequence of chunks.  Tag numbers and _ids use  *)
(* chunks of one character, so that substring, trim, padStart and parseInt *)
(* act on them as they do in the server; a character that no string of     *)
(* this module can spell is the chunk of its code point ("U+00A0").  A     *)
(* channel type is a sequence whose chunks are blanks and one word, which  *)
(* is all that trim() can see.                                             *)
(***************************************************************************)
EXTENDS Integers, Sequences, FiniteSets

(***************************************************************************)
(* Bounds of the model.                                                    *)
(***************************************************************************)
MaxCampaigns == 2   \* campaign documents ever inserted
MaxChannels == 3    \* channels of one submitted campaign
MaxImages == 2      \* image files ever uploaded to GridFS
MaxRequests == 2    \* requests whose store calls interleave
MaxNumber == 2      \* largest stored number from which the allocator is called

(***************************************************************************)
(* String primitives of the runtime.                                       *)
(***************************************************************************)
\* WhiteSpace and LineTerminator of ECMAScript, which trim() and parseInt
\* strip: tab, line feed, vertical tab, form feed, carriage return, space,
\* no-break space, the byte order mark, the line and paragraph separators
\* and the other space separators of Unicode
Whitespace ==
  {" ", "\t", "\n", "\r", "\f", "U+000B", "U+00A0", "U+1680", "U+2000", "U+2001",
   "U+2002", "U+2003", "U+2004", "U+2005", "U+2006", "U+2007", "U+2008", "U+2009",
   "U+200A", "U+2028", "U+2029", "U+202F", "U+205F", "U+3000", "U+FEFF"}

Digits == <<"0", "1", "2", "3", "4", "5", "6", "7", "8", "9">>

DigitChars == {Digits[i] : i \in 1..10}

\* the digits of radix 16, in lower and in upper case
HexDigits ==
  <<"0", "1", "2", "3", "4", "5", "6", "7", "8", "9", "a", "b", "c", "d", "e", "f">>

HexUpper ==
  <<"0", "1", "2", "3", "4", "5", "6", "7", "8", "9", "A", "B", "C", "D", "E", "F">>

HexChars == {HexDigits[i] : i \in 1..16} \cup {HexUpper[i] : i \in 1..16}

HexValue(c) == (CHOOSE i \in 1..16 : HexDigits[i] = c \/ HexUpper[i] = c) - 1

RECURSIVE TrimStart(_)
TrimStart(s) ==
  IF s = <<>> THEN <<>>
  ELSE IF Head(s) \in Whitespace THEN TrimStart(Tail(s))
  ELSE s

RECURSIVE TrimEnd(_)
TrimEnd(s) ==
  IF s = <<>> THEN <<>>
  ELSE IF s[Len(s)] \in Whitespace THEN TrimEnd(SubSeq(s, 1, Len(s) - 1))
  ELSE s

\* String.prototype.trim
Trim(s) == TrimEnd(TrimStart(s))

\* String.prototype.substring(from) and substring(from, to), 0-based
Substring(s, from, to) ==
  SubSeq(s, (IF from > Len(s) THEN Len(s) ELSE from) + 1,
            IF to > Len(s) THEN Len(s) ELSE to)

SubstringFrom(s, from) == Substring(s, from, Len(s))

\* String(n) for a non-negative integer n
RECURSIVE NumberToString(_)
NumberToString(n) ==
  IF n < 10 THEN <<Digits[n + 1]>>
  ELSE Append(NumberToString(n \div 10), Digits[(n % 10) + 1])

\* String.prototype.padStart(width, fill) with a one-chunk fill
RECURSIVE PadStart(_, _, _)
PadStart(s, width, fill) ==
  IF Len(s) >= width THEN s ELSE PadStart(<<fill>> \o s, width, fill)

\* the longest run of digits of the radix at the head of s
RECURSIVE LeadingDigits(_, _)
LeadingDigits(s, radix) ==
  IF s = <<>> \/ Head(s) \notin (IF radix = 16 THEN HexChars ELSE DigitChars) THEN <<>>
  ELSE <<Head(s)>> \o LeadingDigits(Tail(s), radix)

RECURSIVE DigitsValue(_, _)
DigitsValue(d, radix) ==
  IF d = <<>> THEN 0
  ELSE radix * DigitsValue(SubSeq(d, 1, Len(d) - 1), radix) + HexValue(d[Len(d)])

\* parseInt(s) without radix: blanks are skipped, one sign is accepted, a
\* 0x or 0X that follows selects radix 16 and is dropped, the digits of the
\* radix that follow are read and whatever comes after them is ignored; NaN
\* when no digit is found.
ParseInt(s) ==
  LET t == TrimStart(s)
      signed == t # <<>> /\ Head(t) \in {"+", "-"}
      body == IF signed THEN Tail(t) ELSE t
      hex == Len(body) >= 2 /\ body[1] = "0" /\ body[2] \in {"x", "X"}
      radix == IF hex THEN 16 ELSE 10
      d == LeadingDigits(IF hex THEN SubSeq(body, 3, Len(body)) ELSE body, radix)
  IN IF d = <<>> THEN [nan |-> TRUE, val |-> 0]
     ELSE [nan |-> FALSE,
           val |-> IF signed /\ Head(t) = "-" THEN 0 - DigitsValue(d, radix)
                   ELSE DigitsValue(d, radix)]

(***************************************************************************)
(* The elements of a channels array, each by its tagNumber: a string,      *)
(* null/undefined (the channel has no tagNumber), a non-zero number, which *)
(* is truthy and has no trim method, or no channel at all: the element is  *)
(* null, and reading its tagNumber raises a TypeError.                     *)
(***************************************************************************)
Str(s) == [kind |-> "string", str |-> s]

Null == [kind |-> "null", str |-> <<>>]

NonString == [kind |-> "number", str |-> <<>>]

NoChannel == [kind |-> "nochannel", str |-> <<>>]

IsString(v) == v.kind = "string"

Truthy(v) == v.kind = "number" \/ (v.kind = "string" /\ v.str # <<>>)

\* the elements of a sequence, as a set
Range(s) == {s[i] : i \in 1..Len(s)}

\* Array.prototype.indexOf, 1-based, 0 when absent
IndexOf(s, x) ==
  IF x \in Range(s) THEN CHOOSE i \in 1..Len(s) : s[i] = x /\ \A j \in 1..(i - 1) : s[j] # x
  ELSE 0

\* Array.prototype.filter with a predicate on (element, index)
RECURSIVE FilterIdx(_, _, _)
FilterIdx(s, P(_, _), i) ==
  IF i > Len(s) THEN <<>>
  ELSE (IF P(s[i], i) THEN <<s[i]>> ELSE <<>>) \o FilterIdx(s, P, i + 1)

\* [...new Set(s)]: the elements of s in order of first occurrence
Unique(s) == LET First(x, i) == IndexOf(s, x) = i IN FilterIdx(s, First, 1)

\* Math.max over a non-empty set of numbers
MaxOf(S) == CHOOSE m \in S : \A n \in S : n <= m

(***************************************************************************)
(* The static table of POST /api/tags/generate: channel type -> prefix.    *)
(***************************************************************************)
PrefixTable ==
  { <<"Instagram", <<"I","G">>>>, <<"Facebook", <<"F","B">>>>,
    <<"TikTok", <<"T","T">>>>, <<"YouTube", <<"Y","T">>>>,
    <<"Snapchat", <<"S","C">>>>, <<"Google", <<"G","G">>>>,
    <<"WhatsApp Group", <<"W","A">>>>, <<"Gold councils", <<"G","T">>>>,
    <<"Residential Community", <<"R","C">>>>,
    <<"Lang/Cultural group", <<"L","C">>>>, <<"Religious group", <<"R","G">>>>,
    <<"Bluecollar Camp", <<"B","C">>>>, <<"Neighbourhood Community", <<"N","C">>>>,
    <<"Social organisations", <<"S","O">>>>, <<"Event", <<"E","V">>>>,
    <<"Exhibition", <<"E","X">>>>, <<"Channel Partners", <<"C","P">>>>,
    <<"Corporate Partners", <<"C","O">>>>, <<"Hotel", <<"H","T">>>>,
    <<"Tour Driver", <<"T","D">>>>, <<"Tours&Travel Agency", <<"T","C">>>>,
    <<"New collection Launch", <<"P","L">>>>, <<"Website", <<"W","S">>>>,
    <<"Email", <<"E","M">>>>, <<"SMS", <<"S","M","S">>>>,
    <<"Print Media", <<"P","M">>>>, <<"Radio", <<"R","D">>>>,
    <<"Television", <<"T","V">>>>, <<"Referral", <<"R","F">>>>,
    <<"Storefront", <<"S","F">>>>, <<"Outdoor Ads", <<"O","A">>>>,
    <<"Others", <<"O","T">>>> }

\* a chain whose final else gives the prefix of Others
PrefixOfOthers(trimmedChannelType) ==
  IF Len(trimmedChannelType) = 1
     /\ \E e \in PrefixTable : e[1] = trimmedChannelType[1]
  THEN (CHOOSE e \in PrefixTable : e[1] = trimmedChannelType[1])[2]
  ELSE <<"O", "T">>

\* the if/else chain on trimmedChannelType; <<>> when no branch matches
PrefixOf(trimmedChannelType) ==
  IF Len(trimmedChannelType) = 1
     /\ \E e \in PrefixTable : e[1] = trimmedChannelType[1]
  THEN (CHOOSE e \in PrefixTable : e[1] = trimmedChannelType[1])[2]
  ELSE <<>>

\* `${prefix}${String(n).padStart(5, '0')}`
FormatTag(prefix, n) == prefix \o PadStart(NumberToString(n), 5, "0")

\* `MK_${nextId.toString().padStart(6, '0')}`
FormatCampaignId(n) == <<"M", "K", "_">> \o PadStart(NumberToString(n), 6, "0")

(***************************************************************************)
(* The _id of a campaign document and the :campaignId of a URL.  An _id is *)
(* a number here; a URL carries a string, which ObjectId.isValid tests and *)
(* new ObjectId reads, in either case of the letters.                      *)
(***************************************************************************)
\* the _id the store gives to the first campaign inserted: an ObjectId is
\* drawn from the clock and a random value, and its hexadecimal form has
\* letters
FirstOid == 10

\* Number.prototype.toString(16)
RECURSIVE ToHex(_)
ToHex(n) ==
  IF n < 16 THEN <<HexDigits[n + 1]>>
  ELSE Append(ToHex(n \div 16), HexDigits[(n % 16) + 1])

\* ObjectId.prototype.toString: 24 hexadecimal digits, letters in lower case
ToHexString(id) == PadStart(ToHex(id), 24, "0")

\* String.prototype.toUpperCase on hexadecimal digits
ToUpperCase(s) ==
  [i \in DOMAIN s |->
     IF \E k \in 1..16 : HexDigits[k] = s[i]
     THEN HexUpper[CHOOSE k \in 1..16 : HexDigits[k] = s[i]]
     ELSE s[i]]

\* ObjectId.isValid of a string that is not 12 characters long
IsValidOid(s) == Len(s) = 24 /\ \A i \in 1..24 : s[i] \in HexChars

\* new ObjectId(s) of a valid string
ObjectIdOf(s) == DigitsValue(s, 16)

\* a URL parameter that ObjectId.isValid refuses
InvalidOid == <<"0">>

(***************************************************************************)
(* The campaign tag validator of POST and PUT /api/campaigns.              *)
(***************************************************************************)
\* channels.map(tagNumber).filter(non-blank string).map(trim)
RECURSIVE TagNumbers(_)
TagNumbers(channels) ==
  IF channels = <<>> THEN <<>>
  ELSE (IF IsString(Head(channels)) /\ Trim(Head(channels).str) # <<>>
        THEN <<Trim(Head(channels).str)>> ELSE <<>>)
       \o TagNumbers(Tail(channels))

\* uniqueTags.size !== tagNumbers.length
HasDuplicates(tagNumbers) == Cardinality(Range(tagNumbers)) # Len(tagNumbers)

\* tagNumbers.filter((tag, index) => tagNumbers.indexOf(tag) !== index)
Duplicates(tagNumbers) ==
  LET Repeated(tag, index) == IndexOf(tagNumbers, tag) # index
  IN FilterIdx(tagNumbers, Repeated, 1)

\* the campaigns that PUT leaves out of the comparison: those whose
\* _id.toString() is the :campaignId of the URL, compared as strings
Excluded(camps, urlId) == {id \in DOMAIN camps : ToHexString(id) = urlId}

\* the strings added to existingTags: every truthy tagNumber, as stored, of
\* the campaigns whose _id is not in exclude
ExistingTags(camps, exclude) ==
  UNION { {v.str : v \in {c \in Range(camps[id].channels) : Truthy(c) /\ IsString(c)}} :
          id \in DOMAIN camps \ exclude }

\* channel.tagNumber of an element that is null raises a TypeError
ExistingThrows(camps, exclude) ==
  \E id \in DOMAIN camps \ exclude : NoChannel \in Range(camps[id].channels)

\* tagNumbers.filter(tag => existingTags.has(tag))
DuplicateTags(tagNumbers, existingTags) ==
  LET Taken(tag, index) == tag \in existingTags
  IN FilterIdx(tagNumbers, Taken, 1)

Verdict(error, tags) == [error |-> error, tags |-> tags]

\* a block that goes to its read of the campaigns without looking for a tag
\* carried twice
ValidateUnchecked(channels) ==
  IF NoChannel \in Range(channels) THEN Verdict("server", <<>>)
  ELSE Verdict("none", <<>>)

\* the validation block up to its read of the campaigns: the tags are
\* extracted and looked up among themselves
ValidateSubmitted(channels) ==
  IF NoChannel \in Range(channels) THEN Verdict("server", <<>>)
  ELSE IF TagNumbers(channels) # <<>> /\ HasDuplicates(TagNumbers(channels))
  THEN Verdict("duplicateInCampaign", Unique(Duplicates(TagNumbers(channels))))
  ELSE Verdict("none", <<>>)

\* the validation block from its read of the campaigns on
ValidateStored(channels, camps, exclude) ==
  LET duplicateTags == DuplicateTags(TagNumbers(channels), ExistingTags(camps, exclude))
  IN IF ExistingThrows(camps, exclude) THEN Verdict("server", <<>>)
     ELSE IF duplicateTags # <<>> THEN Verdict("duplicateAcrossCampaigns", duplicateTags)
     ELSE Verdict("none", <<>>)

\* the campaigns are read when the submission carries a tag and none twice
ReadsCampaigns(channels) ==
  ValidateSubmitted(channels).error = "none" /\ TagNumbers(channels) # <<>>

\* the outcome of the validation block when camps is what its read returns
Validate(channels, camps, exclude) ==
  IF ReadsCampaigns(channels) THEN ValidateStored(channels, camps, exclude)
  ELSE ValidateSubmitted(channels)

(***************************************************************************)
(* The validation block of POST /api/campaigns in the second server        *)
(* (part_001), which tests no type and trims no tag.                       *)
(***************************************************************************)
\* channels.map(channel => channel.tagNumber).filter(tag => tag &&
\* tag.trim() !== ''): the strings that are not blank, as submitted
VariantTagNumbers(channels) ==
  LET kept == SelectSeq(channels, LAMBDA v : Truthy(v) /\ Trim(v.str) # <<>>)
  IN [k \in DOMAIN kept |-> kept[k].str]

\* the block up to its read of the campaigns: tagNumber of a channel that
\* is null and trim of a truthy value that is no string raise a TypeError,
\* and the error for a tag carried twice names no tag
VariantValidateSubmitted(channels) ==
  IF \E v \in Range(channels) : v = NoChannel \/ (Truthy(v) /\ ~IsString(v))
  THEN Verdict("server", <<>>)
  ELSE IF HasDuplicates(VariantTagNumbers(channels))
  THEN Verdict("duplicateInCampaign", <<>>)
  ELSE Verdict("none", <<>>)

\* the block from its read of the campaigns on
VariantValidateStored(channels, camps, exclude) ==
  LET duplicateTags == DuplicateTags(VariantTagNumbers(channels), ExistingTags(camps, exclude))
  IN IF ExistingThrows(camps, exclude) THEN Verdict("server", <<>>)
     ELSE IF duplicateTags # <<>> THEN Verdict("duplicateAcrossCampaigns", duplicateTags)
     ELSE Verdict("none", <<>>)

(***************************************************************************)
(* syncTagCounters.                                                        *)
(***************************************************************************)
\* every element stored in the channels of a campaign
StoredValues(camps) == UNION {Range(camps[id].channels) : id \in DOMAIN camps}

\* channel.tagNumber of a null element, and channel.tagNumber.trim() of a
\* value that has no trim method, raise a TypeError, which the try/catch
\* around the whole function swallows
SyncThrows(camps) ==
  \E v \in StoredValues(camps) : v = NoChannel \/ (Truthy(v) /\ ~IsString(v))

\* the trimmed, non-empty stored tag numbers
ScannedTags(camps) ==
  {Trim(v.str) : v \in {w \in StoredValues(camps) : Truthy(w) /\ Trim(w.str) # <<>>}}

\* the prefix and numeric part the scan reads from one tag
SplitPrefix(tagNumber) == Substring(tagNumber, 0, 2)

SplitNumber(tagNumber) == ParseInt(SubstringFrom(tagNumber, 2))

\* a scan that keeps every tag of at least 3 characters
WellFormedUnparsed(tagNumber) == Len(tagNumber) >= 3

\* a tag the scan keeps: at least 3 long, numeric part a non-negative integer
WellFormed(tagNumber) ==
  /\ Len(tagNumber) >= 3
  /\ ~SplitNumber(tagNumber).nan
  /\ SplitNumber(tagNumber).val >= 0

\* tagNumbersByPrefix
TagNumbersByPrefix(camps) ==
  LET kept == {t \in ScannedTags(camps) : WellFormed(t)}
  IN [prefix \in {SplitPrefix(t) : t \in kept} |->
        {SplitNumber(t).val : t \in {u \in kept : SplitPrefix(u) = prefix}}]

\* a reconcile that adds the observed maximum to the stored number
SyncedNumberAdded(stored, numbers) == stored + MaxOf(numbers)

\* the value updateOne $set writes for a prefix with observed numbers
SyncedNumber(stored, numbers) == MaxOf(numbers)

\* the tagCounters collection after a run of syncTagCounters on camps and
\* counters during which no other request writes the store
SyncedCounters(camps, counters) ==
  IF SyncThrows(camps) THEN counters
  ELSE LET byPrefix == TagNumbersByPrefix(camps)
       IN [prefix \in DOMAIN counters \cup DOMAIN byPrefix |->
             IF prefix \in DOMAIN byPrefix
             THEN SyncedNumber(IF prefix \in DOMAIN counters THEN counters[prefix] ELSE 0,
                               byPrefix[prefix])
             ELSE counters[prefix]]

(***************************************************************************)
(* State.                                                                  *)
(***************************************************************************)
VARIABLES
  campaigns,          \* the campaigns collection: _id -> [campaignId, channels, images]
  tagCounters,        \* the tagCounters collection: prefix -> lastNumber
  campaignIdCounter,  \* lastNumber of the 'campaignId' document of counters
  nextOid,            \* the next _id the store gives to an inserted campaign
  gridFS,             \* the images bucket: [files, uploaded, writing]
  flight,             \* the requests: slot -> the locals of the request it holds
  resp,               \* the response sent in the last step, if it sent one
  issued,             \* history: every tag number a 200 of generate carried
  retired             \* history: issued tags a campaign delete took out of the store

vars == <<campaigns, tagCounters, campaignIdCounter, nextOid, gridFS, flight, resp,
         issued, retired>>

\* the collections and the bucket
store == <<campaigns, tagCounters, campaignIdCounter, nextOid, gridFS>>

NoFunction == [x \in {} |-> 0]

Requests == 1..MaxRequests

\* what a request finds in the store when it arrives
Snapshot ==
  [campaigns |-> campaigns, tagCounters |-> tagCounters,
   campaignIdCounter |-> campaignIdCounter, files |-> gridFS.files]

\* the locals of a handler: what the request carries (channelType, urlId,
\* channels, bodyCampaignId, uploads, extname, imagesToRemove, filename,
\* channelIndex),
\* the variables of the handler, the call it is waiting for (pc), and as
\* history the store at its arrival (start), the response that preceded it
\* (previous) and the call that failed (failed)
NoRequest ==
  [op |-> "none", pc |-> "done", status |-> 0, failed |-> "none",
   start |-> [campaigns |-> NoFunction, tagCounters |-> NoFunction,
              campaignIdCounter |-> 0, files |-> {}],
   channelType |-> <<>>, prefix |-> <<>>, absent |-> FALSE, lastNumber |-> 0,
   number |-> 0, tagNumber |-> <<>>,
   urlId |-> <<>>, oid |-> 0, channels |-> <<>>, bodyCampaignId |-> <<>>,
   campaignId |-> <<>>, uploads |-> 0, extname |-> <<>>, imagesToRemove |-> <<>>, images |-> <<>>,
   newImages |-> <<>>, paths |-> <<>>, file |-> <<>>, channelIndex |-> 0,
   entries |-> <<>>, variant |-> FALSE, previous |-> [op |-> "none", status |-> 0, prefix |-> <<>>, counter |-> 0]]

Response(r, op, status, error, tags, tagNumber, prefix, counter) ==
  [request |-> r, op |-> op, status |-> status, error |-> error, tags |-> tags,
   tagNumber |-> tagNumber, prefix |-> prefix, counter |-> counter]

Plain(r, op, status, error) == Response(r, op, status, error, <<>>, <<>>, <<>>, 0)

NoResponse == Plain(0, "none", 0, "none")

Init ==
  /\ campaigns = NoFunction
  /\ tagCounters = NoFunction
  /\ campaignIdCounter = 0
  /\ nextOid = FirstOid
  /\ gridFS = [files |-> {}, uploaded |-> 0, writing |-> <<>>]
  /\ flight = [r \in Requests |-> NoRequest]
  /\ resp = NoResponse
  /\ issued = {}
  /\ retired = {}

\* every request has been answered
Idle == \A r \in Requests : flight[r].pc = "done"

\* slot r holds no request under way
Arrives(r) == flight[r].pc = "done"

\* requests served one at a time: r is the first slot and no request is
\* under way
Serial(r) == Idle /\ \A q \in Requests : r <= q

\* requests that overlap: r is the first slot that holds no request under way
Free(r) == \A q \in Requests : q < r => flight[q].pc # "done"

\* the locals of a request of the given kind at its arrival; previous is
\* the response sent in the step before it, if that step sent one
Arrived(op) ==
  [NoRequest EXCEPT !.op = op, !.start = Snapshot,
                    !.previous = [op |-> resp.op, status |-> resp.status,
                                  prefix |-> resp.prefix, counter |-> resp.counter]]

\* request r goes on to its next store call with the locals given
Goes(r, locals) ==
  /\ flight' = [flight EXCEPT ![r] = locals]
  /\ resp' = NoResponse

\* request r is answered; the body and the URL it was sent and what it
\* answered stay, its files and the locals of its loops go
Answers(r, locals, response) ==
  /\ flight' = [flight EXCEPT ![r] =
                  [locals EXCEPT !.pc = "done", !.status = response.status,
                                 !.uploads = 0, !.extname = <<>>,
                                 !.imagesToRemove = <<>>,
                                 !.images = <<>>, !.newImages = <<>>, !.paths = <<>>,
                                 !.file = <<>>, !.entries = <<>>]]
  /\ resp' = response

\* the issued tags that are stored before a delete and not after it
Removed(before, after) ==
  {t \in issued : Str(t) \in StoredValues(before) /\ Str(t) \notin StoredValues(after)}

(***************************************************************************)
(* POST /api/tags/generate.                                                *)
(***************************************************************************)
\* counter.lastNumber after the findOne and the insertOne of a missing counter
LastNumber(counters, prefix) ==
  IF prefix \in DOMAIN counters THEN counters[prefix] ELSE 0

\* campaigns.findOne({'channels.tagNumber': tag}) finds a document
TagExists(camps, tag) == Str(tag) \in StoredValues(camps)

\* a handler that commits its first candidate without looking it up
UsedNumberUnchecked(camps, prefix, lastNumber) == lastNumber + 1

\* the number the handler commits and returns
UsedNumber(camps, prefix, lastNumber) ==
  IF TagExists(camps, FormatTag(prefix, lastNumber + 1))
  THEN lastNumber + 2
  ELSE lastNumber + 1

\* an update that increments the stored number instead of setting it
IncrementCounter(counters, prefix, number) ==
  [p \in DOMAIN counters \cup {prefix} |->
     IF p = prefix THEN LastNumber(counters, prefix) + 1 ELSE counters[p]]

\* an update that replaces the collection by the one counter it writes
ReplaceCounters(counters, prefix, number) == [p \in {prefix} |-> number]

\* an update that stores the number before the one it is given
SetCounterBehind(counters, prefix, number) ==
  [p \in DOMAIN counters \cup {prefix} |->
     IF p = prefix THEN number - 1 ELSE counters[p]]

\* updateOne({prefix}, {$set: {lastNumber}}, {upsert: true})
SetCounter(counters, prefix, number) ==
  [p \in DOMAIN counters \cup {prefix} |->
     IF p = prefix THEN number ELSE counters[p]]

\* the handler up to its first store call: the channel type is trimmed and
\* looked up in the if/else chain
GenerateTag(r, channelType) ==
  LET trimmedChannelType == Trim(channelType)
      prefix == PrefixOf(trimmedChannelType)
      q == [Arrived("generate") EXCEPT !.channelType = channelType]
  IN /\ Arrives(r)
     /\ IF trimmedChannelType = <<>>
        THEN Answers(r, q, Plain(r, "generate", 400, "select"))
        ELSE IF prefix = <<>>
        THEN Answers(r, q, Plain(r, "generate", 400, "unknown"))
        ELSE /\ LastNumber(tagCounters, prefix) < MaxNumber
             /\ Goes(r, [q EXCEPT !.pc = "findCounter", !.prefix = prefix])
     /\ UNCHANGED <<store, issued, retired>>

\* tagCounters.findOne({prefix})
FindCounter(r) ==
  LET q == flight[r]
  IN /\ q.pc = "findCounter"
     /\ Goes(r, [q EXCEPT !.absent = q.prefix \notin DOMAIN tagCounters,
                          !.lastNumber = LastNumber(tagCounters, q.prefix),
                          !.pc = IF q.prefix \in DOMAIN tagCounters
                                 THEN "findTag" ELSE "insertCounter"])
     /\ UNCHANGED <<store, issued, retired>>

\* an insertOne on a collection without unique index on prefix
InsertCounterUnindexed(r) ==
  LET q == flight[r]
  IN /\ q.pc = "insertCounter"
     /\ tagCounters' = [p \in DOMAIN tagCounters \cup {q.prefix} |->
                          IF p = q.prefix THEN 0 ELSE tagCounters[p]]
     /\ Goes(r, [q EXCEPT !.pc = "findTag"])
     /\ UNCHANGED <<campaigns, campaignIdCounter, nextOid, gridFS, issued, retired>>

\* tagCounters.insertOne({prefix, lastNumber: 0}); the unique index on prefix
\* refuses it when another request has inserted the counter, and the catch
\* of the handler answers 500
InsertCounter(r) ==
  LET q == flight[r]
  IN /\ q.pc = "insertCounter"
     /\ IF q.prefix \in DOMAIN tagCounters
        THEN /\ Answers(r, q, Plain(r, "generate", 500, "server"))
             /\ UNCHANGED tagCounters
        ELSE /\ tagCounters' = [p \in DOMAIN tagCounters \cup {q.prefix} |->
                                  IF p = q.prefix THEN 0 ELSE tagCounters[p]]
             /\ Goes(r, [q EXCEPT !.pc = "findTag"])
     /\ UNCHANGED <<campaigns, campaignIdCounter, nextOid, gridFS, issued, retired>>

\* campaigns.findOne({'channels.tagNumber': newTagNumber})
FindTag(r) ==
  LET q == flight[r]
  IN /\ q.pc = "findTag"
     /\ Goes(r, [q EXCEPT !.pc = "updateCounter",
                          !.number = UsedNumber(campaigns, q.prefix, q.lastNumber)])
     /\ UNCHANGED <<store, issued, retired>>

\* tagCounters.updateOne({prefix}, {$set: {lastNumber}}, {upsert: true}), and
\* the response that follows it
UpdateCounter(r) ==
  LET q == flight[r]
      tagNumber == FormatTag(q.prefix, q.number)
  IN /\ q.pc = "updateCounter"
     /\ tagCounters' = SetCounter(tagCounters, q.prefix, q.number)
     /\ Answers(r, [q EXCEPT !.tagNumber = tagNumber],
                Response(r, "generate", 200, "none", <<>>, tagNumber, q.prefix, q.number))
     /\ issued' = issued \cup {tagNumber}
     /\ UNCHANGED <<campaigns, campaignIdCounter, nextOid, gridFS, retired>>

(***************************************************************************)
(* syncTagCounters, behind POST /api/tags/sync and at the end of a         *)
(* campaign create or update: the read of the campaigns, one updateOne for *)
(* every prefix observed, and the read of the counters that ends it.       *)
(***************************************************************************)
\* the stored tag numbers in the order of the scan: campaigns by _id, the
\* channels of a campaign by index
RECURSIVE TagsInOrder(_, _)
TagsInOrder(camps, ids) ==
  IF ids = {} THEN <<>>
  ELSE LET id == CHOOSE i \in ids : \A j \in ids : i <= j
           scanned == SelectSeq(camps[id].channels,
                                LAMBDA v : Truthy(v) /\ Trim(v.str) # <<>>)
       IN [k \in DOMAIN scanned |-> Trim(scanned[k].str)]
          \o TagsInOrder(camps, ids \ {id})

\* the keys of tagNumbersByPrefix in the order Object.entries visits them:
\* the keys that are array indices (a digit string without leading zero)
\* come first, ascending by value, and the other keys follow in the order in
\* which the scan met them
PrefixesInOrder(camps) ==
  LET kept == SelectSeq(TagsInOrder(camps, DOMAIN camps), WellFormed)
      met == Unique([k \in DOMAIN kept |-> SplitPrefix(kept[k])])
      IsIndex(key) ==
        /\ key # <<>>
        /\ Range(key) \subseteq DigitChars
        /\ Len(key) > 1 => Head(key) # "0"
      indices == {key \in Range(met) : IsIndex(key)}
      Below(key) == {j \in indices : DigitsValue(j, 10) < DigitsValue(key, 10)}
      ascending == [k \in 1..Cardinality(indices) |->
                      CHOOSE key \in indices : Cardinality(Below(key)) = k - 1]
  IN ascending \o SelectSeq(met, LAMBDA key : ~IsIndex(key))

\* Object.entries(tagNumbersByPrefix) after the scan of the campaigns read
Entries(camps) ==
  [k \in 1..Len(PrefixesInOrder(camps)) |->
     [prefix |-> PrefixesInOrder(camps)[k],
      numbers |-> TagNumbersByPrefix(camps)[PrefixesInOrder(camps)[k]]]]

\* syncTagCounters returns, or ends in its catch, and the handler that
\* called it answers 200
Synced(r, q) == Answers(r, q, Plain(r, q.op, 200, "none"))

\* POST /api/tags/sync up to the first store call of syncTagCounters
SyncTags(r) ==
  /\ Arrives(r)
  /\ Goes(r, [Arrived("sync") EXCEPT !.pc = "syncScan"])
  /\ UNCHANGED <<store, issued, retired>>

\* campaigns.find({}).toArray() and the scan of what it returned; an element
\* that is null or a tagNumber without trim method ends the function in its
\* catch
SyncScan(r) ==
  LET q == flight[r]
  IN /\ q.pc = "syncScan"
     /\ IF SyncThrows(campaigns)
        THEN Synced(r, q)
        ELSE Goes(r, [q EXCEPT !.pc = "syncUpdate", !.entries = Entries(campaigns)])
     /\ UNCHANGED <<store, issued, retired>>

\* tagCounters.updateOne({prefix}, {$set: {lastNumber: maxNumber}}, {upsert: true})
\* for the next entry
SyncUpdate(r) ==
  LET q == flight[r]
  IN /\ q.pc = "syncUpdate"
     /\ q.entries # <<>>
     /\ tagCounters' =
          SetCounter(tagCounters, Head(q.entries).prefix,
                     SyncedNumber(LastNumber(tagCounters, Head(q.entries).prefix),
                                  Head(q.entries).numbers))
     /\ Goes(r, [q EXCEPT !.entries = Tail(@)])
     /\ UNCHANGED <<campaigns, campaignIdCounter, nextOid, gridFS, issued, retired>>

\* a function that ends by emptying the collection of counters
SyncDoneReset(r) ==
  LET q == flight[r]
  IN /\ q.pc = "syncUpdate"
     /\ q.entries = <<>>
     /\ tagCounters' = NoFunction
     /\ Synced(r, q)
     /\ UNCHANGED <<campaigns, campaignIdCounter, nextOid, gridFS, issued, retired>>

\* tagCounters.find({}).toArray(), the return, and the response of the handler
SyncDone(r) ==
  LET q == flight[r]
  IN /\ q.pc = "syncUpdate"
     /\ q.entries = <<>>
     /\ Synced(r, q)
     /\ UNCHANGED <<store, issued, retired>>

(***************************************************************************)
(* Campaign images.  A file name and an image path are sequences of        *)
(* chunks: the directory, the stem of an upload and its unique suffix.     *)
(***************************************************************************)
\* `campaign-${uniqueSuffix}${path.extname(file.originalname)}`: the name of
\* the n-th file ever uploaded, fresh by its suffix, which ends with the
\* extension of the name the client gave the file
UploadName(n, extname) == <<"campaign-">> \o NumberToString(n) \o extname

\* `/api/images/${filename}`
ImagePath(filename) == <<"/api/images/">> \o filename

\* imagePath.replace('/api/images/', ''): the first occurrence is removed
Filename(imagePath) ==
  IF "/api/images/" \in Range(imagePath)
  THEN LET i == IndexOf(imagePath, "/api/images/")
       IN SubSeq(imagePath, 1, i - 1) \o SubSeq(imagePath, i + 1, Len(imagePath))
  ELSE imagePath

\* a.includes(b)
Includes(a, b) ==
  \E i \in 1..(Len(a) + 1) : i + Len(b) - 1 <= Len(a) /\ SubSeq(a, i, i + Len(b) - 1) = b

\* the bucket after one upload stream has finished; the name of its file is
\* fresh
AfterUpload(bucket, extname) ==
  [bucket EXCEPT !.files = @ \cup {UploadName(bucket.uploaded + 1, extname)},
                 !.uploaded = @ + 1]

\* gridFSBucket.delete of a file of the bucket
AfterDelete(bucket, file) == [bucket EXCEPT !.files = @ \ {file}]

\* finalImages: existingCampaign.images without the paths of imagesToRemove
FinalImages(images, imagesToRemove) ==
  SelectSeq(images, LAMBDA img : img \notin Range(imagesToRemove))

\* the name a loop over image paths looks up: PUT takes what replace leaves,
\* DELETE trims it
FileOf(imagePath, op) ==
  IF op = "delete" THEN Trim(Filename(imagePath)) ELSE Filename(imagePath)

\* the paths left once the loop has passed those that give no file name
RECURSIVE SkipUnnamed(_, _)
SkipUnnamed(paths, op) ==
  IF paths = <<>> \/ FileOf(Head(paths), op) # <<>> THEN paths
  ELSE SkipUnnamed(Tail(paths), op)

(***************************************************************************)
(* POST /api/campaigns.                                                    *)
(***************************************************************************)
\* the response to a submission the validation block refuses, or in which
\* it raises a TypeError that the catch of the handler answers
Refusal(r, q, verdict) ==
  IF verdict.error = "server" THEN Plain(r, q.op, 500, "server")
  ELSE Response(r, q.op, 400, verdict.error, verdict.tags, <<>>, <<>>, 0)

\* the _ids of the documents updateOne({campaignId}) matches
WithCampaignId(camps, campaignId) ==
  {id \in DOMAIN camps : camps[id].campaignId = campaignId}

\* the response of POST /api/campaigns to a request served while no other
\* request is
CreateReply(r, channels, camps) ==
  LET verdict == Validate(channels, camps, {})
  IN IF verdict.error # "none"
     THEN Refusal(r, [op |-> "create"], verdict)
     ELSE Plain(r, "create", 200, "none")

\* the handler once the tags are validated, up to its next store call
CreateValidated(r, q) ==
  Goes(r, [q EXCEPT !.pc = IF q.campaignId = <<>> THEN "nextCampaignId"
                           ELSE "createSave"])

\* the validation block up to its read of the campaigns
CreateValidation(r, q) ==
  LET verdict == ValidateSubmitted(q.channels)
  IN IF verdict.error # "none" THEN Answers(r, q, Refusal(r, q, verdict))
     ELSE IF TagNumbers(q.channels) # <<>> THEN Goes(r, [q EXCEPT !.pc = "createFind"])
     ELSE CreateValidated(r, q)

\* the handler up to its first store call; the files of the request are
\* uploaded before the tags are validated
CreateCampaign(r, channels, bodyCampaignId, uploads, extname) ==
  LET q == [Arrived("create") EXCEPT !.channels = channels,
                                     !.bodyCampaignId = bodyCampaignId,
                                     !.campaignId = bodyCampaignId,
                                     !.uploads = uploads, !.extname = extname]
  IN /\ Arrives(r)
     /\ gridFS.uploaded + Len(gridFS.writing) + uploads <= MaxImages
     /\ Validate(channels, campaigns, {}).error = "none" =>
          /\ bodyCampaignId = <<>> => campaignIdCounter < MaxCampaigns
          /\ WithCampaignId(campaigns, bodyCampaignId) = {} =>
               nextOid < FirstOid + MaxCampaigns
     /\ IF uploads > 0 THEN Goes(r, [q EXCEPT !.pc = "createUpload"])
        ELSE CreateValidation(r, q)
     /\ UNCHANGED <<store, issued, retired>>

\* one upload stream finishes: its file is in the bucket and its path is
\* pushed to images; await Promise.all(uploadPromises) returns when the last
\* stream of the request has finished
CreateUpload(r) ==
  LET q == flight[r]
      pushed == [q EXCEPT !.images =
                           Append(@, ImagePath(UploadName(gridFS.uploaded + 1, q.extname)))]
  IN /\ q.pc = "createUpload"
     /\ gridFS' = AfterUpload(gridFS, q.extname)
     /\ IF Len(pushed.images) < q.uploads THEN Goes(r, pushed)
        ELSE CreateValidation(r, pushed)
     /\ UNCHANGED <<campaigns, tagCounters, campaignIdCounter, nextOid, issued, retired>>

\* campaigns.find({}).toArray() and the comparison with what it returned
CreateFind(r) ==
  LET q == flight[r]
      verdict == ValidateStored(q.channels, campaigns, {})
  IN /\ q.pc = "createFind"
     /\ IF verdict.error # "none" THEN Answers(r, q, Refusal(r, q, verdict))
        ELSE CreateValidated(r, q)
     /\ UNCHANGED <<store, issued, retired>>

\* getNextCampaignId: counters.findOneAndUpdate({_id: 'campaignId'}, {$inc})
NextCampaignId(r) ==
  LET q == flight[r]
  IN /\ q.pc = "nextCampaignId"
     /\ campaignIdCounter' = campaignIdCounter + 1
     /\ Goes(r, [q EXCEPT !.campaignId = FormatCampaignId(campaignIdCounter + 1),
                          !.pc = "createSave"])
     /\ UNCHANGED <<campaigns, tagCounters, nextOid, gridFS, issued, retired>>

\* campaigns.updateOne({campaignId}, {$set: campaignData}, {upsert: true});
\* campaignData has images when files were uploaded; the second server
\* calls syncTagCounters next, without reading the document back
CreateSave(r) ==
  LET q == flight[r]
      matched == WithCampaignId(campaigns, q.campaignId)
      first == CHOOSE id \in matched : \A other \in matched : id <= other
  IN /\ q.pc = "createSave"
     /\ campaigns' =
          IF matched # {}
          THEN [campaigns EXCEPT ![first].channels = q.channels,
                                 ![first].images = IF q.uploads > 0 THEN q.images ELSE @]
          ELSE [id \in DOMAIN campaigns \cup {nextOid} |->
                  IF id = nextOid
                  THEN [campaignId |-> q.campaignId, channels |-> q.channels,
                        images |-> q.images]
                  ELSE campaigns[id]]
     /\ nextOid' = IF matched = {} THEN nextOid + 1 ELSE nextOid
     /\ Goes(r, [q EXCEPT !.pc = IF q.variant THEN "syncScan" ELSE "createRead"])
     /\ UNCHANGED <<tagCounters, campaignIdCounter, gridFS, issued, retired>>

\* campaigns.findOne({campaignId}), whose result is logged; syncTagCounters
\* is called next
CreateRead(r) ==
  LET q == flight[r]
  IN /\ q.pc = "createRead"
     /\ Goes(r, [q EXCEPT !.pc = "syncScan"])
     /\ UNCHANGED <<store, issued, retired>>

(***************************************************************************)
(* POST /api/campaigns of the second server (part_001).  Its files are     *)
(* written to disk before the handler runs; getNextCampaignId, the upsert  *)
(* and syncTagCounters are those of the first server.                      *)
(***************************************************************************)
\* the handler up to its first store call
VariantCreateCampaign(r, channels) ==
  LET q == [Arrived("create") EXCEPT !.channels = channels, !.variant = TRUE]
      verdict == VariantValidateSubmitted(channels)
  IN /\ Arrives(r)
     /\ (/\ verdict.error = "none"
         /\ VariantValidateStored(channels, campaigns, {}).error = "none") =>
          campaignIdCounter < MaxCampaigns /\ nextOid < FirstOid + MaxCampaigns
     /\ IF verdict.error # "none" THEN Answers(r, q, Refusal(r, q, verdict))
        ELSE IF VariantTagNumbers(channels) # <<>>
        THEN Goes(r, [q EXCEPT !.pc = "variantFind"])
        ELSE CreateValidated(r, q)
     /\ UNCHANGED <<store, issued, retired>>

\* campaigns.find({}).toArray() and the comparison with what it returned
VariantCreateFind(r) ==
  LET q == flight[r]
      verdict == VariantValidateStored(q.channels, campaigns, {})
  IN /\ q.pc = "variantFind"
     /\ IF verdict.error # "none" THEN Answers(r, q, Refusal(r, q, verdict))
        ELSE CreateValidated(r, q)
     /\ UNCHANGED <<store, issued, retired>>

(***************************************************************************)
(* PUT /api/campaigns/:campaignId.                                         *)
(***************************************************************************)
\* the response of PUT /api/campaigns/:campaignId to a request served while
\* no other request is
UpdateReply(r, urlId, channels, camps) ==
  LET verdict == Validate(channels, camps, Excluded(camps, urlId))
  IN IF ~IsValidOid(urlId) THEN Plain(r, "update", 400, "invalidId")
     ELSE IF ObjectIdOf(urlId) \notin DOMAIN camps THEN Plain(r, "update", 404, "notFound")
     ELSE IF verdict.error # "none"
     THEN Refusal(r, [op |-> "update"], verdict)
     ELSE Plain(r, "update", 200, "none")

\* the validation block up to its read of the campaigns
UpdateValidation(r, q) ==
  LET verdict == ValidateSubmitted(q.channels)
  IN IF verdict.error # "none" THEN Answers(r, q, Refusal(r, q, verdict))
     ELSE IF TagNumbers(q.channels) # <<>> THEN Goes(r, [q EXCEPT !.pc = "updateFind"])
     ELSE Goes(r, [q EXCEPT !.pc = "updateSave"])

\* the loop over imagesToRemove up to its next store call; after the loop
\* campaignData.images is set and the tags are validated
UpdateLoop(r, q) ==
  LET paths == SkipUnnamed(q.paths, "update")
  IN IF paths # <<>> THEN Goes(r, [q EXCEPT !.paths = paths, !.pc = "updateFindFile"])
     ELSE UpdateValidation(r,
            [q EXCEPT !.paths = <<>>,
                      !.images = FinalImages(q.images, q.imagesToRemove) \o q.newImages])

\* the handler up to its first store call
UpdateCampaign(r, urlId, channels, uploads, extname, imagesToRemove) ==
  LET q == [Arrived("update") EXCEPT !.urlId = urlId, !.channels = channels,
                                     !.uploads = uploads, !.extname = extname,
                                     !.imagesToRemove = imagesToRemove]
  IN /\ Arrives(r)
     /\ gridFS.uploaded + Len(gridFS.writing) + uploads <= MaxImages
     /\ IF ~IsValidOid(urlId)
        THEN Answers(r, q, Plain(r, "update", 400, "invalidId"))
        ELSE Goes(r, [q EXCEPT !.oid = ObjectIdOf(urlId), !.pc = "updateFindOne"])
     /\ UNCHANGED <<store, issued, retired>>

\* campaigns.findOne({_id: objectId})
UpdateFindOne(r) ==
  LET q == flight[r]
      found == [q EXCEPT !.images = campaigns[q.oid].images,
                         !.paths = q.imagesToRemove]
  IN /\ q.pc = "updateFindOne"
     /\ IF q.oid \notin DOMAIN campaigns
        THEN Answers(r, q, Plain(r, "update", 404, "notFound"))
        ELSE IF q.uploads > 0 THEN Goes(r, [found EXCEPT !.pc = "updateUpload"])
        ELSE UpdateLoop(r, found)
     /\ UNCHANGED <<store, issued, retired>>

\* one upload stream finishes: its file is in the bucket and its path is
\* pushed to newImages; await Promise.all(uploadPromises) returns when the
\* last stream of the request has finished
UpdateUpload(r) ==
  LET q == flight[r]
      pushed == [q EXCEPT !.newImages =
                           Append(@, ImagePath(UploadName(gridFS.uploaded + 1, q.extname)))]
  IN /\ q.pc = "updateUpload"
     /\ gridFS' = AfterUpload(gridFS, q.extname)
     /\ IF Len(pushed.newImages) < q.uploads THEN Goes(r, pushed)
        ELSE UpdateLoop(r, pushed)
     /\ UNCHANGED <<campaigns, tagCounters, campaignIdCounter, nextOid, issued, retired>>

\* filesCollection.findOne({filename}) for the next path of imagesToRemove
UpdateFindFile(r) ==
  LET q == flight[r]
      filename == FileOf(Head(q.paths), "update")
  IN /\ q.pc = "updateFindFile"
     /\ IF filename \in gridFS.files
        THEN Goes(r, [q EXCEPT !.file = filename, !.pc = "updateDeleteFile"])
        ELSE UpdateLoop(r, [q EXCEPT !.paths = Tail(@)])
     /\ UNCHANGED <<store, issued, retired>>

\* gridFSBucket.delete(file._id); the loop goes on when the file is gone
UpdateDeleteFile(r) ==
  LET q == flight[r]
  IN /\ q.pc = "updateDeleteFile"
     /\ gridFS' = AfterDelete(gridFS, q.file)
     /\ UpdateLoop(r, [q EXCEPT !.paths = Tail(@), !.file = <<>>])
     /\ UNCHANGED <<campaigns, tagCounters, campaignIdCounter, nextOid, issued, retired>>

\* the handler of the second server once the tags are validated: new
\* ObjectId(campaignId) throws for a :campaignId that is no ObjectId, before
\* updateOne is called, and the catch answers 500
VariantUpdateValidated(r, q) ==
  IF ~IsValidOid(q.urlId) THEN Answers(r, q, Plain(r, "update", 500, "server"))
  ELSE Goes(r, [q EXCEPT !.oid = ObjectIdOf(q.urlId), !.pc = "updateSave"])

\* campaigns.find({}).toArray() and the comparison with what it returned,
\* without the campaigns whose _id.toString() is the :campaignId of the URL
UpdateFind(r) ==
  LET q == flight[r]
      exclude == Excluded(campaigns, q.urlId)
      verdict == IF q.variant THEN VariantValidateStored(q.channels, campaigns, exclude)
                 ELSE ValidateStored(q.channels, campaigns, exclude)
  IN /\ q.pc = "updateFind"
     /\ IF verdict.error # "none" THEN Answers(r, q, Refusal(r, q, verdict))
        ELSE IF q.variant THEN VariantUpdateValidated(r, q)
        ELSE Goes(r, [q EXCEPT !.pc = "updateSave"])
     /\ UNCHANGED <<store, issued, retired>>

\* campaigns.updateOne({_id: objectId}, {$set: campaignData}, {upsert: false});
\* matchedCount is 0 when the document is gone.  The first server sets the
\* images and reads the campaign again; the second server leaves the images
\* and calls syncTagCounters next
UpdateSave(r) ==
  LET q == flight[r]
  IN /\ q.pc = "updateSave"
     /\ IF q.oid \notin DOMAIN campaigns
        THEN /\ Answers(r, q, Plain(r, "update", 404, "notFound"))
             /\ UNCHANGED campaigns
        ELSE /\ campaigns' = [campaigns EXCEPT ![q.oid].channels = q.channels,
                                               ![q.oid].images =
                                                 IF q.variant THEN @ ELSE q.images]
             /\ Goes(r, [q EXCEPT !.pc = IF q.variant THEN "syncScan" ELSE "updateRead"])
     /\ UNCHANGED <<tagCounters, campaignIdCounter, nextOid, gridFS, issued, retired>>

\* PUT /api/campaigns/:campaignId of the second server (part_001) up to its
\* first store call: the :campaignId is not looked at before the tags are
\* validated, and no campaign is read before updateOne
VariantUpdateCampaign(r, urlId, channels) ==
  LET q == [Arrived("update") EXCEPT !.urlId = urlId, !.channels = channels,
                                     !.variant = TRUE]
      verdict == VariantValidateSubmitted(channels)
  IN /\ Arrives(r)
     /\ IF verdict.error # "none" THEN Answers(r, q, Refusal(r, q, verdict))
        ELSE IF VariantTagNumbers(channels) # <<>>
        THEN Goes(r, [q EXCEPT !.pc = "updateFind"])
        ELSE VariantUpdateValidated(r, q)
     /\ UNCHANGED <<store, issued, retired>>

\* campaigns.findOne({_id: objectId}), whose result is logged;
\* syncTagCounters is called next
UpdateRead(r) ==
  LET q == flight[r]
  IN /\ q.pc = "updateRead"
     /\ Goes(r, [q EXCEPT !.pc = "syncScan"])
     /\ UNCHANGED <<store, issued, retired>>

(***************************************************************************)
(* DELETE /api/campaigns/:campaignId.                                      *)
(***************************************************************************)
\* campaign.images.filter(img => img && img.trim() !== '')
ImagesToDelete(images) == SelectSeq(images, LAMBDA img : Trim(img) # <<>>)

\* the loop over imagesToDelete up to its next store call
DeleteLoop(r, q) ==
  LET paths == SkipUnnamed(q.paths, "delete")
  IN Goes(r, [q EXCEPT !.paths = paths, !.file = <<>>,
                       !.pc = IF paths # <<>> THEN "deleteFindFile" ELSE "deleteOne"])

\* the handler up to its first store call
DeleteCampaign(r, urlId) ==
  LET q == [Arrived("delete") EXCEPT !.urlId = urlId]
  IN /\ Arrives(r)
     /\ IF ~IsValidOid(urlId)
        THEN Answers(r, q, Plain(r, "delete", 400, "invalidId"))
        ELSE Goes(r, [q EXCEPT !.oid = ObjectIdOf(urlId), !.pc = "deleteFindOne"])
     /\ UNCHANGED <<store, issued, retired>>

\* campaigns.findOne({_id: objectId})
DeleteFindOne(r) ==
  LET q == flight[r]
  IN /\ q.pc = "deleteFindOne"
     /\ IF q.oid \notin DOMAIN campaigns
        THEN Answers(r, q, Plain(r, "delete", 404, "notFound"))
        ELSE DeleteLoop(r, [q EXCEPT !.paths = ImagesToDelete(campaigns[q.oid].images)])
     /\ UNCHANGED <<store, issued, retired>>

\* filesCollection.findOne({filename}) for the next path of imagesToDelete
DeleteFindFile(r) ==
  LET q == flight[r]
      filename == FileOf(Head(q.paths), "delete")
  IN /\ q.pc = "deleteFindFile"
     /\ Goes(r, [q EXCEPT !.file = IF filename \in gridFS.files THEN filename ELSE <<>>,
                          !.pc = IF filename \in gridFS.files THEN "deleteFile"
                                 ELSE "deleteFindFiles"])
     /\ UNCHANGED <<store, issued, retired>>

\* filesCollection.find({}).toArray() for a name that was not found: the
\* first file whose name includes it or is included in it is deleted,
\* whichever file the store returns first
DeleteFindFiles(r) ==
  LET q == flight[r]
      filename == FileOf(Head(q.paths), "delete")
      partial == {f \in gridFS.files : Includes(f, filename) \/ Includes(filename, f)}
  IN /\ q.pc = "deleteFindFiles"
     /\ IF partial = {} THEN DeleteLoop(r, [q EXCEPT !.paths = Tail(@)])
        ELSE \E f \in partial : Goes(r, [q EXCEPT !.file = f, !.pc = "deleteFile"])
     /\ UNCHANGED <<store, issued, retired>>

\* gridFSBucket.delete of the file found; the loop goes on when it is gone
DeleteFile(r) ==
  LET q == flight[r]
  IN /\ q.pc = "deleteFile"
     /\ gridFS' = AfterDelete(gridFS, q.file)
     /\ DeleteLoop(r, [q EXCEPT !.paths = Tail(@)])
     /\ UNCHANGED <<campaigns, tagCounters, campaignIdCounter, nextOid, issued, retired>>

\* a delete that ends by rewriting every counter from the campaigns left
DeleteOneSynced(r) ==
  LET q == flight[r]
      kept == [id \in DOMAIN campaigns \ {q.oid} |-> campaigns[id]]
  IN /\ q.pc = "deleteOne"
     /\ campaigns' = kept
     /\ tagCounters' = SyncedCounters(kept, [p \in DOMAIN tagCounters |-> 0])
     /\ retired' = retired \cup Removed(campaigns, kept)
     /\ Answers(r, q, Plain(r, "delete", IF q.oid \in DOMAIN campaigns THEN 200 ELSE 404,
                            "none"))
     /\ UNCHANGED <<campaignIdCounter, nextOid, gridFS, issued>>

\* DELETE /api/campaigns/:campaignId of the second server (part_001) up to
\* its store call: new ObjectId(campaignId) throws for a :campaignId that is
\* no ObjectId and the catch answers 500; the campaign is not read and its
\* files stay where they are
VariantDeleteCampaign(r, urlId) ==
  LET q == [Arrived("delete") EXCEPT !.urlId = urlId, !.variant = TRUE]
  IN /\ Arrives(r)
     /\ IF ~IsValidOid(urlId) THEN Answers(r, q, Plain(r, "delete", 500, "server"))
        ELSE Goes(r, [q EXCEPT !.oid = ObjectIdOf(urlId), !.pc = "deleteOne"])
     /\ UNCHANGED <<store, issued, retired>>

\* campaigns.deleteOne({_id: objectId}) and the response of either server;
\* deletedCount is 0 when the document is gone
DeleteOne(r) ==
  LET q == flight[r]
      kept == [id \in DOMAIN campaigns \ {q.oid} |-> campaigns[id]]
  IN /\ q.pc = "deleteOne"
     /\ campaigns' = kept
     /\ retired' = retired \cup Removed(campaigns, kept)
     /\ Answers(r, q, IF q.oid \in DOMAIN campaigns THEN Plain(r, "delete", 200, "none")
                      ELSE Plain(r, "delete", 404, "notFound"))
     /\ UNCHANGED <<tagCounters, campaignIdCounter, nextOid, gridFS, issued>>

(***************************************************************************)
(* DELETE /api/images/:filename.                                           *)
(***************************************************************************)
\* the handler up to its first store call
DeleteImage(r, filename) ==
  /\ Arrives(r)
  /\ Goes(r, [Arrived("image") EXCEPT !.file = filename, !.pc = "imageFindOne"])
  /\ UNCHANGED <<store, issued, retired>>

\* files.findOne({filename})
ImageFindOne(r) ==
  LET q == flight[r]
  IN /\ q.pc = "imageFindOne"
     /\ IF q.file \in gridFS.files THEN Goes(r, [q EXCEPT !.pc = "imageDelete"])
        ELSE Answers(r, q, Plain(r, "image", 404, "notFound"))
     /\ UNCHANGED <<store, issued, retired>>

\* gridFSBucket.delete(file._id) and the response; the delete of a file
\* that is gone rejects, and the catch of the handler answers 500
ImageDelete(r) ==
  LET q == flight[r]
  IN /\ q.pc = "imageDelete"
     /\ gridFS' = AfterDelete(gridFS, q.file)
     /\ Answers(r, q, IF q.file \in gridFS.files THEN Plain(r, "image", 200, "none")
                      ELSE Plain(r, "image", 500, "server"))
     /\ UNCHANGED <<campaigns, tagCounters, campaignIdCounter, nextOid, issued, retired>>

(***************************************************************************)
(* PUT /api/campaigns/:campaignId/channels/:channelIndex/impressions, with *)
(* a number that is not negative for impressions and a channelIndex that   *)
(* parseInt reads as a number that is not negative.  The impressions of a  *)
(* channel are not part of the state.                                      *)
(***************************************************************************)
\* channels after $set of 'channels.<index>.impressions': past the end of
\* the array the store pads it with null and adds an object that has
\* impressions and no tagNumber
WithImpressions(channels, channelIndex) ==
  IF channelIndex < Len(channels) THEN channels
  ELSE channels \o [k \in 1..(channelIndex - Len(channels)) |-> NoChannel] \o <<Null>>

\* the handler up to its store call
SetImpressions(r, campaignId, channelIndex) ==
  /\ Arrives(r)
  /\ Goes(r, [Arrived("impressions") EXCEPT !.campaignId = campaignId,
                                            !.channelIndex = channelIndex,
                                            !.pc = "impressionsUpdateOne"])
  /\ UNCHANGED <<store, issued, retired>>

\* campaigns.updateOne({campaignId}, {$set: {'channels.<index>.impressions'}})
\* and the response: 404 when no document matches or none is modified, 500
\* when the element at the index is null.  modified tells whether the value
\* sent differs from the impressions the channel has
ImpressionsUpdateOne(r, modified) ==
  LET q == flight[r]
      matched == WithCampaignId(campaigns, q.campaignId)
      first == CHOOSE id \in matched : \A other \in matched : id <= other
      channels == campaigns[first].channels
  IN /\ q.pc = "impressionsUpdateOne"
     /\ IF matched = {}
        THEN /\ Answers(r, q, Plain(r, "impressions", 404, "notFound"))
             /\ UNCHANGED campaigns
        ELSE IF q.channelIndex < Len(channels) /\ channels[q.channelIndex + 1] = NoChannel
        THEN /\ Answers(r, q, Plain(r, "impressions", 500, "server"))
             /\ UNCHANGED campaigns
        ELSE /\ modified \/ q.channelIndex < Len(channels)
             /\ campaigns' = [campaigns EXCEPT ![first].channels =
                                WithImpressions(channels, q.channelIndex)]
             /\ Answers(r, q, IF modified THEN Plain(r, "impressions", 200, "none")
                              ELSE Plain(r, "impressions", 404, "notModified"))
     /\ UNCHANGED <<tagCounters, campaignIdCounter, nextOid, gridFS, issued, retired>>

(***************************************************************************)
(* A store call that rejects.                                              *)
(***************************************************************************)
\* the call request r is waiting for rejects and leaves the store as it is:
\* the catch of syncTagCounters logs the error of its calls and the handler
\* answers 200, the catch inside the loop of PUT over imagesToRemove and of
\* DELETE over imagesToDelete logs it and the loop goes on, the catch of PUT
\* /api/campaigns/:campaignId of the first server answers 400 when the
\* message of the error includes "ObjectId", and the catch of a handler
\* answers 500 otherwise.
\* The call that rejects while the uploads are awaited is one upload stream:
\* Promise.all rejects and the handler answers, and the streams of the
\* request that have not finished go on writing
StoreCallFails(r, includesObjectId) ==
  LET q == [flight[r] EXCEPT !.failed = flight[r].pc]
  IN /\ flight[r].pc # "done"
     /\ IF q.pc \in {"syncScan", "syncUpdate"} THEN Synced(r, q)
        ELSE IF q.pc \in {"updateFindFile", "updateDeleteFile"}
        THEN UpdateLoop(r, [q EXCEPT !.paths = Tail(@), !.file = <<>>])
        ELSE IF q.pc \in {"deleteFindFile", "deleteFindFiles", "deleteFile"}
        THEN DeleteLoop(r, [q EXCEPT !.paths = Tail(@)])
        ELSE IF q.op = "update" /\ ~q.variant /\ includesObjectId
        THEN Answers(r, q, Plain(r, "update", 400, "invalidId"))
        ELSE Answers(r, q, Plain(r, q.op, 500, "server"))
     /\ gridFS' =
          IF q.pc = "createUpload"
          THEN [gridFS EXCEPT !.writing =
                  @ \o [k \in 1..(q.uploads - Len(q.images) - 1) |-> q.extname]]
          ELSE IF q.pc = "updateUpload"
          THEN [gridFS EXCEPT !.writing =
                  @ \o [k \in 1..(q.uploads - Len(q.newImages) - 1) |-> q.extname]]
          ELSE gridFS
     /\ UNCHANGED <<campaigns, tagCounters, campaignIdCounter, nextOid, issued, retired>>

\* an upload stream whose request has been answered finishes, and its file
\* is in the bucket, or it emits an error that no one awaits; no response is
\* sent
UploadSettles(finishes) ==
  /\ \E k \in DOMAIN gridFS.writing :
       gridFS' = [(IF finishes THEN AfterUpload(gridFS, gridFS.writing[k]) ELSE gridFS)
                    EXCEPT !.writing = SubSeq(@, 1, k - 1) \o SubSeq(@, k + 1, Len(@))]
  /\ resp' = NoResponse
  /\ UNCHANGED <<campaigns, tagCounters, campaignIdCounter, nextOid, flight, issued,
                 retired>>

(***************************************************************************)
(* The requests the model sends.                                           *)
(***************************************************************************)
IG1 == <<"I", "G", "0", "0", "0", "0", "1">>
IG2 == <<"I", "G", "0", "0", "0", "0", "2">>
IG1Blank == <<"I", "G", "0", "0", "0", "0", "1", " ">>
SMS1 == <<"S", "M", "S", "0", "0", "0", "0", "1">>
SMS2 == <<"S", "M", "S", "0", "0", "0", "0", "2">>

\* a body whose second tag has a prefix that is an array index: 10 + 001
DigitPrefixBody == <<Str(IG1), Str(<<"1", "0", "0", "0", "1">>)>>

\* the arrays of at most n channels whose tagNumber is drawn from tags
RECURSIVE ChannelLists(_, _)
ChannelLists(tags, n) ==
  IF n = 0 THEN {<<>>}
  ELSE ChannelLists(tags, n - 1)
       \cup {Append(l, t) : l \in {m \in ChannelLists(tags, n - 1) : Len(m) = n - 1},
                            t \in tags}

\* the arrays of one channel
Singles(tags) == {<<t>> : t \in tags}

\* the :campaignId of a URL: the _ids the store gives, and a string that is
\* no ObjectId
StoredOids == {ToHexString(id) : id \in FirstOid..(FirstOid + MaxCampaigns - 1)}

OidInputs == {InvalidOid} \cup StoredOids

\* the bodies sent to PUT: every body for a stored campaign, the empty array
\* for a URL that names no stored campaign (its body is never read)
UpdateBodies(urlId, bodies) ==
  IF IsValidOid(urlId) /\ ObjectIdOf(urlId) \in DOMAIN campaigns THEN bodies ELSE {<<>>}

\* the store calls of POST /api/tags/generate
GenerateSteps(r) ==
  \/ FindCounter(r)
  \/ InsertCounter(r)
  \/ FindTag(r)
  \/ UpdateCounter(r)

\* the store calls of syncTagCounters
SyncSteps(r) ==
  \/ SyncScan(r)
  \/ SyncUpdate(r)
  \/ SyncDone(r)

\* the store calls of POST /api/campaigns without image files
CreateSteps(r) ==
  \/ CreateFind(r)
  \/ NextCampaignId(r)
  \/ CreateSave(r)
  \/ CreateRead(r)

\* the store calls of the requests on campaigns without image files
CampaignSteps(r) ==
  \/ CreateSteps(r)
  \/ UpdateFindOne(r)
  \/ UpdateFind(r)
  \/ UpdateSave(r)
  \/ UpdateRead(r)
  \/ DeleteFindOne(r)
  \/ DeleteOne(r)
  \/ SyncSteps(r)

\* the store calls on the image bucket
ImageSteps(r) ==
  \/ CreateUpload(r)
  \/ UpdateUpload(r)
  \/ UpdateFindFile(r)
  \/ UpdateDeleteFile(r)
  \/ DeleteFindFile(r)
  \/ DeleteFindFiles(r)
  \/ DeleteFile(r)
  \/ ImageFindOne(r)
  \/ ImageDelete(r)

\* requests on campaigns with the bodies given, without image files; the
\* campaignId of a POST is left to the server
CampaignRequests(r, bodies) ==
  \/ \E channels \in bodies : CreateCampaign(r, channels, <<>>, 0, <<>>)
  \/ \E urlId \in OidInputs : \E channels \in UpdateBodies(urlId, bodies) :
       UpdateCampaign(r, urlId, channels, 0, <<>>, <<>>)
  \/ \E urlId \in OidInputs : DeleteCampaign(r, urlId)
  \/ SyncTags(r)

\* Instagram tags and channel types
TagInputs == {Str(IG1), Str(IG2)}

ChannelTypeInputs ==
  {<<"Instagram">>, <<" ", "Instagram", "\r">>, <<"Carrier Pigeon">>, <<"U+00A0">>}

\* every request is served before the next one arrives: allocations,
\* campaign requests, and requests on the impressions of a channel of the
\* first campaign, at an index within the bound on the channels
Next ==
  \E r \in Requests :
    \/ Serial(r) /\ \E channelType \in ChannelTypeInputs : GenerateTag(r, channelType)
    \/ Serial(r) /\ CampaignRequests(r, Singles(TagInputs))
    \/ Serial(r) /\ \E channelIndex \in 0..(MaxChannels - 1) :
                      SetImpressions(r, FormatCampaignId(1), channelIndex)
    \/ GenerateSteps(r)
    \/ CampaignSteps(r)
    \/ \E modified \in BOOLEAN : ImpressionsUpdateOne(r, modified)

Spec == Init /\ [][Next]_vars

\* campaign writes alone, one tag with a trailing blank among them, and
\* updates that spell the _id in upper case: the allocator is never called
NextCampaigns ==
  \E r \in Requests :
    \/ Serial(r) /\ CampaignRequests(r, ChannelLists({Str(IG1), Str(IG2), Str(IG1Blank)},
                                                      MaxChannels - 1))
    \/ Serial(r) /\ \E urlId \in {ToUpperCase(id) : id \in StoredOids} :
                      \E channels \in UpdateBodies(urlId, Singles({Str(IG1), Str(IG2),
                                                                   Str(IG1Blank)})) :
                        UpdateCampaign(r, urlId, channels, 0, <<>>, <<>>)
    \/ CampaignSteps(r)

SpecCampaigns == Init /\ [][NextCampaigns]_vars

\* submissions of one tag number, with and without a surrounding blank
RepeatedTagInputs == {Str(IG1), Str(IG1Blank)}

NextValidator ==
  \E r \in Requests :
    \/ Serial(r) /\ CampaignRequests(r, ChannelLists(RepeatedTagInputs, MaxChannels))
    \/ CampaignSteps(r)

SpecValidator == Init /\ [][NextValidator]_vars

\* the SMS channel type; the bodies of campaign requests: SMS tags, and an
\* Instagram tag
NextSms ==
  \E r \in Requests :
    \/ Serial(r) /\ GenerateTag(r, <<"SMS">>)
    \/ Serial(r) /\ CampaignRequests(r, {<<Str(SMS1)>>, <<Str(SMS2)>>, <<Str(SMS2), Str(SMS1)>>,
                                        <<Str(IG1)>>})
    \/ GenerateSteps(r)
    \/ CampaignSteps(r)

SpecSms == Init /\ [][NextSms]_vars

\* campaign requests that carry image files, whose names end with .png or
\* with .png and a blank, and name an image to remove, and deletes of image
\* files; the :campaignId of PUT and DELETE is an ObjectId
ImageBodies == {<<Str(IG1)>>, <<Str(IG1), Str(IG1)>>}

\* the files a request names, in imagesToRemove or in the URL of DELETE
\* /api/images: the files of the bucket, and once a file has been uploaded
\* the name campaign-1.png, whether such a file is there or not
NamedFiles ==
  gridFS.files \cup {UploadName(1, <<".png">>) : n \in 1..gridFS.uploaded}

NextImages ==
  \E r \in Requests :
    \/ Serial(r) /\ \E channels \in ImageBodies : \E uploads \in 0..MaxImages :
                      \E extname \in (IF uploads = 0 THEN {<<>>}
                                      ELSE {<<".png">>, <<".png", " ">>}) :
                        CreateCampaign(r, channels, <<>>, uploads, extname)
    \/ Serial(r) /\ \E urlId \in StoredOids : \E channels \in UpdateBodies(urlId, ImageBodies) :
                      \E uploads \in 0..MaxImages :
                        \E extname \in (IF uploads = 0 THEN {<<>>} ELSE {<<".png">>}) :
                          \E imagesToRemove \in {<<>>} \cup {<<ImagePath(f)>> : f \in NamedFiles} :
                            UpdateCampaign(r, urlId, channels, uploads, extname, imagesToRemove)
    \/ Serial(r) /\ \E urlId \in StoredOids : DeleteCampaign(r, urlId)
    \/ Free(r) /\ (\A q \in Requests : flight[q].pc \in {"done", "createUpload", "updateUpload"})
               /\ \E filename \in NamedFiles : DeleteImage(r, filename)
    \/ CampaignSteps(r)
    \/ ImageSteps(r)

SpecImages == Init /\ [][NextImages]_vars

\* allocate requests whose store calls interleave, one in every slot, after
\* campaign requests that are served one at a time before the first of them
\* slot r has held none of the requests ops
Unused(r, ops) == flight[r].op \notin ops

NextConcurrent ==
  \E r \in Requests :
    \/ Serial(r) /\ (\A q \in Requests : Unused(q, {"generate"}))
                 /\ CampaignRequests(r, {<<Str(SMS1)>>, <<Str(IG1)>>})
    \/ Unused(r, {"generate"}) /\ (\A q \in Requests : q < r => ~Unused(q, {"generate"}))
                /\ \E channelType \in {<<"SMS">>, <<"Instagram">>} : GenerateTag(r, channelType)
    \/ GenerateSteps(r)
    \/ CampaignSteps(r)

SpecConcurrent == Init /\ [][NextConcurrent]_vars

\* the requests of the allocator and on campaigns, during which a store
\* call can fail: POST and PUT carry no file or MaxImages files, and PUT and
\* DELETE name the first campaign
NextFailures ==
  \E r \in Requests :
    \/ Serial(r) /\ GenerateTag(r, <<"Instagram">>)
    \/ Serial(r) /\ \E uploads \in {0, MaxImages} :
                      CreateCampaign(r, DigitPrefixBody, <<>>, uploads,
                                     IF uploads = 0 THEN <<>> ELSE <<".png", " ">>)
    \/ Serial(r) /\ \E uploads \in {0, MaxImages} :
                      \E channels \in UpdateBodies(ToHexString(FirstOid), {DigitPrefixBody}) :
                        UpdateCampaign(r, ToHexString(FirstOid), channels, uploads,
                                       IF uploads = 0 THEN <<>> ELSE <<".png", " ">>, <<>>)
    \/ Serial(r) /\ DeleteCampaign(r, ToHexString(FirstOid))
    \/ Serial(r) /\ SyncTags(r)
    \/ GenerateSteps(r)
    \/ CampaignSteps(r)
    \/ CreateUpload(r)
    \/ UpdateUpload(r)
    \/ DeleteFindFile(r)
    \/ DeleteFindFiles(r)
    \/ DeleteFile(r)
    \/ \E finishes \in BOOLEAN : UploadSettles(finishes)
    \/ \E includesObjectId \in BOOLEAN : StoreCallFails(r, includesObjectId)

SpecFailures == Init /\ [][NextFailures]_vars

\* allocations for three channel types, two of them of 2-letter prefixes
NextTypes ==
  \E r \in Requests :
    \/ Serial(r) /\ \E channelType \in {<<"Instagram">>, <<"Facebook">>, <<"SMS">>} :
                      GenerateTag(r, channelType)
    \/ Serial(r) /\ CampaignRequests(r, {<<Str(IG1)>>})
    \/ GenerateSteps(r)
    \/ CampaignSteps(r)

SpecTypes == Init /\ [][NextTypes]_vars

\* allocations for known, blank and unknown channel types, among campaign
\* requests with one tag
NextAllocate ==
  \E r \in Requests :
    \/ Serial(r) /\ \E channelType \in ChannelTypeInputs : GenerateTag(r, channelType)
    \/ Serial(r) /\ CampaignRequests(r, {<<Str(IG1)>>})
    \/ GenerateSteps(r)
    \/ CampaignSteps(r)

SpecAllocate == Init /\ [][NextAllocate]_vars

\* stored tags the scan of syncTagCounters skips: too short, a suffix that
\* is not a number, a suffix that is a negative number and a suffix that is
\* the prefix of a hexadecimal number without digits; tags it keeps: a
\* hexadecimal suffix and a suffix that begins with a carriage return;
\* allocations for the prefix of a skipped tag
IGShort == <<"I", "G">>
FBNegative == <<"F", "B", "-", "1">>

\* the channel arrays submitted: well-formed and malformed tags, alone and
\* side by side, and a well-formed tag followed by a blank
MalformedBodies ==
  { <<Str(IG2), Str(IGShort)>>, <<Str(<<"F", "B", "x">>)>>,
    <<Str(IG1), Str(FBNegative)>>, <<Str(IG1Blank)>>,
    <<Str(<<"F", "B", "0", "x">>), Str(<<"I", "G", "\r", "1">>)>>,
    <<Str(<<"F", "B", "0", "X", "2">>)>> }

NextMalformed ==
  \E r \in Requests :
    \/ Serial(r) /\ GenerateTag(r, <<"Facebook">>)
    \/ Serial(r) /\ CampaignRequests(r, MalformedBodies)
    \/ GenerateSteps(r)
    \/ CampaignSteps(r)

SpecMalformed == Init /\ [][NextMalformed]_vars

\* channels whose tagNumber is missing, a number, empty or blank, beside
\* channels that carry a tag
DiscardBodies ==
  { <<Null, Null>>, <<NonString, Str(<<" ">>)>>, <<Str(IG1), Null>>,
    <<Str(IG1Blank), Str(<<>>)>>, <<Str(<<" ">>), Str(<<" ">>)>>, <<Str(IG1), Str(IG1Blank)>>,
    <<Str(IG1), Str(IG1)>>, <<Str(IG1), Str(IG2), Str(IG1)>> }

\* the two servers on one database: the requests on campaigns of the first,
\* and POST /api/campaigns, PUT and DELETE /api/campaigns/:campaignId of the
\* second
NextVariants ==
  \E r \in Requests :
    \/ Serial(r) /\ CampaignRequests(r, DiscardBodies)
    \/ Serial(r) /\ \E channels \in DiscardBodies : VariantCreateCampaign(r, channels)
    \/ Serial(r) /\ \E urlId \in OidInputs :
                      \E channels \in {<<Str(IG1Blank), Str(<<>>)>>, <<NonString, Str(<<" ">>)>>,
                                        <<Str(IG1), Str(IG1)>>} :
                        VariantUpdateCampaign(r, urlId, channels)
    \/ Serial(r) /\ \E urlId \in OidInputs : VariantDeleteCampaign(r, urlId)
    \/ CampaignSteps(r)
    \/ VariantCreateFind(r)

SpecVariants == Init /\ [][NextVariants]_vars

\* a reconcile and an allocate request whose store calls interleave, one
\* request in every slot, after creates that are served one at a time
\* before the first of them

NextOverlap ==
  \E r \in Requests :
    \/ Serial(r) /\ (\A q \in Requests : Unused(q, {"generate", "sync"}))
                 /\ \E channels \in Singles(TagInputs) \cup {DigitPrefixBody} :
                      CreateCampaign(r, channels, <<>>, 0, <<>>)
    \/ Unused(r, {"generate", "sync"}) /\ GenerateTag(r, <<"Instagram">>)
    \/ Unused(r, {"generate", "sync"}) /\ SyncTags(r)
    \/ GenerateSteps(r)
    \/ CreateSteps(r)
    \/ SyncSteps(r)

SpecOverlap == Init /\ [][NextOverlap]_vars

\* create requests whose store calls interleave
NextSaving ==
  \E r \in Requests :
    \/ Free(r) /\ \E channels \in Singles(TagInputs) : CreateCampaign(r, channels, <<>>, 0, <<>>)
    \/ CreateSteps(r)
    \/ SyncSteps(r)

SpecSaving == Init /\ [][NextSaving]_vars

\* POST requests that leave the campaignId to the server or carry the
\* campaignId of the first campaign saved
NextUpsert ==
  \E r \in Requests :
    \/ Serial(r) /\ \E channels \in ChannelLists(RepeatedTagInputs, MaxChannels - 1) :
                      \E bodyCampaignId \in {<<>>, FormatCampaignId(1)} :
                        CreateCampaign(r, channels, bodyCampaignId, 0, <<>>)
    \/ Serial(r) /\ \E urlId \in OidInputs : DeleteCampaign(r, urlId)
    \/ Serial(r) /\ SyncTags(r)
    \/ CreateSteps(r)
    \/ DeleteFindOne(r)
    \/ DeleteOne(r)
    \/ SyncSteps(r)

SpecUpsert == Init /\ [][NextUpsert]_vars

(***************************************************************************)
(* Properties.  In the specifications whose requests are Serial every      *)
(* request is answered before the next one arrives, so an execution is a   *)
(* sequential execution of the server.  In the state that follows the      *)
(* step that answers a request, resp is the answer, Req the request that   *)
(* was answered and Before the store as the request found it.              *)
(***************************************************************************)
Req == flight[resp.request]

Before == Req.start

Allocated == resp.op = "generate" /\ resp.status = 200

\* a request in which syncTagCounters ran has been answered: POST
\* /api/tags/sync, or a campaign save answered with 200
Reconciled ==
  \/ resp.op = "sync"
  \/ resp.op \in {"create", "update"} /\ resp.status = 200

\* the request before the one answered was answered in the step before it
\* arrived
Follows(op) == Req.previous.op = op /\ Req.previous.status = 200

Max(a, b) == IF a >= b THEN a ELSE b

\* C1: in a sequential execution no two successful allocations return the
\* same tag: a tag returned by generate was never returned before.
C1_AllocatedTagsDistinct ==
  [][(resp'.op = "generate" /\ resp'.status = 200) => resp'.tagNumber \notin issued]_vars

\* C4: the stored lastNumber of a prefix never decreases, and a counter is
\* never removed, whatever request is handled.
C4_LastNumberMonotonic ==
  [][\A prefix \in DOMAIN tagCounters :
        /\ prefix \in DOMAIN tagCounters'
        /\ tagCounters'[prefix] >= tagCounters[prefix]]_vars

\* C5: a tag that generate returned, that was stored in a campaign and that a
\* campaign delete took out of the store is not returned by a later generate.
C5_DeletedTagNotReissued ==
  [][(resp'.op = "generate" /\ resp'.status = 200)
       => ~(resp'.tagNumber \in retired /\ ~TagExists(campaigns, resp'.tagNumber))]_vars

\* C6: when reconcile has run, every prefix with a well-formed stored tag has
\* lastNumber = max(lastNumber stored before, largest stored number).
C6_ReconcileKeepsMaximum ==
  Reconciled =>
    \A prefix \in DOMAIN TagNumbersByPrefix(campaigns) :
       /\ prefix \in DOMAIN tagCounters
       /\ tagCounters[prefix] =
            Max(LastNumber(Before.tagCounters, prefix),
                MaxOf(TagNumbersByPrefix(campaigns)[prefix]))

\* C3: a successful allocation returns a tag that no stored channel carries
\* at that moment, however far the counter is behind the stored tags.
C3_AllocatedTagNotStored ==
  Allocated => ~TagExists(campaigns, resp.tagNumber)

\* the numbers n for which a stored channel carries the rendered tag of prefix
StoredNumbers(prefix) ==
  {n \in 0..(MaxNumber + 2) : TagExists(campaigns, FormatTag(prefix, n))}

\* C7: on a fresh system the first allocation of a prefix returns number 1
\* and the one that follows it number 2; and when a stored tag P<m> is ahead
\* of the counter, the allocation that follows a reconcile returns P<m+1>.
C7_AllocationFollowsStoredTags ==
  Allocated =>
    /\ (Before.campaigns = NoFunction /\ Before.tagCounters = NoFunction)
         => resp.counter = 1
    /\ (/\ Before.campaigns = NoFunction
        /\ Follows("generate")
        /\ Req.previous.prefix = resp.prefix
        /\ Req.previous.counter = 1) => resp.counter = 2
    /\ (/\ Req.previous.op = "sync"
        /\ StoredNumbers(resp.prefix) # {}
        /\ MaxOf(StoredNumbers(resp.prefix)) > LastNumber(Before.tagCounters, resp.prefix))
       => resp.tagNumber = FormatTag(resp.prefix, MaxOf(StoredNumbers(resp.prefix)) + 1)

\* the places <<_id, index>> of the stored channels
StoredPlaces ==
  {x \in (DOMAIN campaigns) \X (1..(MaxChannels + 1)) : x[2] <= Len(campaigns[x[1]].channels)}

ValueAt(place) == campaigns[place[1]].channels[place[2]]

\* a value that stands for a tag: a string that is not blank
CarriesTag(v) == IsString(v) /\ Trim(v.str) # <<>>

\* C2: no tagNumber, compared after trimming, is carried by two different
\* stored channels, of one campaign or of two.
C2_StoredTagsUnique ==
  \A x \in StoredPlaces, y \in StoredPlaces :
    (x # y /\ CarriesTag(ValueAt(x)) /\ CarriesTag(ValueAt(y)))
      => Trim(ValueAt(x).str) # Trim(ValueAt(y).str)

\* C8: reconcile is idempotent: a second POST /api/tags/sync that follows a
\* first one with no request in between leaves every counter as it is.
C8_ReconcileIdempotent ==
  (resp.op = "sync" /\ Req.previous.op = "sync") => tagCounters = Before.tagCounters

\* reconcile has run twice in a row on a store that holds a campaign and a
\* counter of a prefix with a stored tag
C8_Witness ==
  /\ resp.op = "sync"
  /\ Req.previous.op = "sync"
  /\ \E prefix \in DOMAIN tagCounters : prefix \in DOMAIN TagNumbersByPrefix(campaigns)

\* the trimmed tags a submission carries
SubmittedTags(channels) ==
  {Trim(v.str) : v \in {w \in Range(channels) : CarriesTag(w)}}

\* the trimmed tags a submission carries more than once
RepeatedTags(channels) ==
  {t \in SubmittedTags(channels) :
     \E i \in 1..Len(channels), j \in 1..Len(channels) :
        /\ i # j
        /\ CarriesTag(channels[i]) /\ Trim(channels[i].str) = t
        /\ CarriesTag(channels[j]) /\ Trim(channels[j].str) = t}

\* the submitted tags that a channel of one of the campaigns ids of camps
\* carries, stored values compared after trimming as submitted ones are
CarriedBy(channels, camps, ids) ==
  {t \in SubmittedTags(channels) :
     \E id \in ids : t \in SubmittedTags(camps[id].channels)}

\* an error response that lists exactly the tags given, each once
Rejects(reply, error, tags) ==
  /\ reply.status = 400
  /\ reply.error = error
  /\ Range(reply.tags) = tags
  /\ Len(reply.tags) = Cardinality(tags)

\* the answer is to a campaign write whose tags were validated: a POST, or
\* a PUT that names a stored campaign
Validated ==
  /\ resp.op \in {"create", "update"}
  /\ resp.error \notin {"invalidId", "notFound"}

\* the stored campaigns a campaign write is compared with: all for a POST,
\* all but the one the URL names for a PUT
Others ==
  IF resp.op = "update" THEN DOMAIN Before.campaigns \ {Req.oid}
  ELSE DOMAIN Before.campaigns

\* C9: a submission without internal duplicate, one of whose trimmed tags a
\* channel of another stored campaign carries, is rejected with the
\* cross-campaign error listing those tags; the campaign a PUT names by _id
\* is not compared, so a PUT that resubmits the stored channels of its
\* campaign is accepted.
C9_CrossCampaignDuplicates ==
  Validated =>
    /\ (RepeatedTags(Req.channels) = {}
        /\ CarriedBy(Req.channels, Before.campaigns, Others) # {})
         => Rejects(resp, "duplicateAcrossCampaigns",
                    CarriedBy(Req.channels, Before.campaigns, Others))
    /\ (resp.op = "update" /\ Req.channels = Before.campaigns[Req.oid].channels)
         => resp.status = 200

\* C10: a create or update whose channels carry a trimmed tag more than once
\* is rejected with the intra-campaign error, which lists exactly the tags
\* that occur more than once, each once.
C10_IntraCampaignDuplicates ==
  (Validated /\ RepeatedTags(Req.channels) # {})
    => Rejects(resp, "duplicateInCampaign", RepeatedTags(Req.channels))

\* a channel type that is empty or blank after trim, or that no entry of the
\* static table names
NotInTable(channelType) ==
  \/ Trim(channelType) = <<>>
  \/ ~\E e \in PrefixTable : Trim(channelType) = <<e[1]>>

\* C11: allocate called with a channel type that is empty, blank or not in
\* the static prefix table answers with an error and touches no counter: no
\* counter is created and every counter keeps its value.
C11_UnknownTypeTouchesNoCounter ==
  (resp.op = "generate" /\ NotInTable(Req.channelType))
    => (resp.status = 400 /\ tagCounters = Before.tagCounters)

\* allocate has refused an unknown channel type while a counter is stored
C11_Witness ==
  /\ resp.op = "generate"
  /\ resp.status = 400
  /\ resp.error = "unknown"
  /\ tagCounters # NoFunction

\* the response rejects a campaign write for a duplicate tag
RejectedForDuplicate(reply) ==
  /\ reply.op \in {"create", "update"}
  /\ reply.status = 400
  /\ reply.error \in {"duplicateInCampaign", "duplicateAcrossCampaigns"}

\* C12: when a create or update is rejected for a duplicate tag, nothing
\* persistent has changed: the campaigns, the tag counters, the campaign-id
\* counter and the stored image files are as they were before the request.
C12_RejectionWritesNothing ==
  RejectedForDuplicate(resp) =>
    /\ campaigns = Before.campaigns
    /\ tagCounters = Before.tagCounters
    /\ campaignIdCounter = Before.campaignIdCounter
    /\ gridFS.files = Before.files

\* the slots that hold an allocate request
Generates == {r \in Requests : flight[r].op = "generate"}

\* request r is an allocate request that has been answered 200
Succeeded(r) ==
  r \in Generates /\ flight[r].pc = "done" /\ flight[r].status = 200

\* C13: two allocate requests of one prefix that both read the counter
\* before either writes it both succeed with the same tag, and once every
\* request of the prefix is answered the counter is at that single number.
C13_InterleavedAllocationsCollide ==
  \A r1 \in Requests, r2 \in Requests :
    (/\ r1 # r2
     /\ Succeeded(r1) /\ Succeeded(r2)
     /\ flight[r1].prefix = flight[r2].prefix
     /\ flight[r1].lastNumber = flight[r2].lastNumber)
    => /\ flight[r1].tagNumber = flight[r2].tagNumber
       /\ (\A q \in Generates :
             flight[q].prefix = flight[r1].prefix
               => (Succeeded(q) /\ flight[q].lastNumber = flight[r1].lastNumber))
          => tagCounters[flight[r1].prefix] = flight[r1].number

\* two allocate requests have been answered 200 with the same tag, and the
\* counter of their prefix is at the number of that tag
C13_Witness ==
  \E r1 \in Requests, r2 \in Requests :
    /\ r1 # r2
    /\ Succeeded(r1) /\ Succeeded(r2)
    /\ flight[r1].tagNumber = flight[r2].tagNumber
    /\ tagCounters[flight[r1].prefix] = flight[r1].number

\* the counters after an allocate for prefix served alone
AllocatedAlone(camps, counters, prefix) ==
  SetCounter(counters, prefix, UsedNumber(camps, prefix, LastNumber(counters, prefix)))

\* the counters after allocate requests for the prefixes given, served one
\* after another
RECURSIVE AllocatedInTurn(_, _)
AllocatedInTurn(counters, prefixes) ==
  IF prefixes = <<>> THEN counters
  ELSE AllocatedInTurn(AllocatedAlone(campaigns, counters, Head(prefixes)), Tail(prefixes))

\* the counters when the first of the allocate requests arrived
StartCounters ==
  IF Generates = {} THEN tagCounters
  ELSE flight[CHOOSE r \in Generates : \A q \in Generates : r <= q].start.tagCounters

\* the orders in which the allocate requests can be served one after another
Orders ==
  {o \in [1..Cardinality(Generates) -> Generates] :
     \A i \in DOMAIN o, j \in DOMAIN o : i # j => o[i] # o[j]}

\* every allocate request is for a prefix of the table, and no two are for
\* the same prefix
DifferentPrefixes ==
  /\ \A r \in Generates : flight[r].prefix # <<>>
  /\ \A r1 \in Generates, r2 \in Generates :
       r1 # r2 => flight[r1].prefix # flight[r2].prefix

\* C14: allocate requests for different prefixes do not interfere, however
\* their store calls interleave: each returns the tag it would return alone
\* from the starting state, and once all are answered the counters are those
\* of serving the requests one after another, in any order.
C14_DifferentPrefixesIndependent ==
  DifferentPrefixes =>
    /\ \A r \in Generates :
         flight[r].pc = "done" =>
           /\ flight[r].status = 200
           /\ flight[r].tagNumber =
                FormatTag(flight[r].prefix,
                          UsedNumber(campaigns, flight[r].prefix,
                                     LastNumber(StartCounters, flight[r].prefix)))
    /\ (\A r \in Generates : flight[r].pc = "done")
         => \A o \in Orders :
              tagCounters =
                AllocatedInTurn(StartCounters, [i \in DOMAIN o |-> flight[o[i]].prefix])

\* two requests for different prefixes whose store calls interleaved have
\* been answered, one of them after the skip of a stored tag
C14_Witness ==
  \E r1 \in Requests, r2 \in Requests :
    /\ Succeeded(r1) /\ Succeeded(r2)
    /\ flight[r1].prefix # flight[r2].prefix
    /\ flight[r1].number = flight[r1].lastNumber + 2
    /\ flight[r2].start.tagCounters = flight[r1].start.tagCounters

\* the prefixes of the static table
TablePrefixes == {e[2] : e \in PrefixTable}

\* C15: when a create or update answers with success, reconcile has run, so
\* every prefix of the static table with a well-formed stored tag has a
\* counter that is at least the largest stored number of that prefix.
C15_CountersCoverStoredTags ==
  (resp.op \in {"create", "update"} /\ resp.status = 200) =>
    \A prefix \in TablePrefixes :
      StoredNumbers(prefix) # {} =>
        /\ prefix \in DOMAIN tagCounters
        /\ tagCounters[prefix] >= MaxOf(StoredNumbers(prefix))

\* the read of the campaigns in the validation block of POST and of PUT
ValidationCalls == {"createFind", "updateFind"}

\* C16: if a store call fails during allocate, during reconcile invoked by
\* POST /api/tags/sync, or during validation, the caller receives a failure
\* response and never a success response.
C16_StoreFailureIsReported ==
  (/\ resp.op # "none"
   /\ Req.failed # "none"
   /\ resp.op \in {"generate", "sync"} \/ Req.failed \in ValidationCalls)
    => resp.status >= 400

\* C17: a successful allocate for a channel type of prefix P changes exactly
\* one counter record, the one of P: the counters of the other prefixes and
\* the campaign documents are unchanged by the call.
C17_AllocateWritesOneCounter ==
  Allocated =>
    /\ campaigns = Before.campaigns
    /\ DOMAIN tagCounters = DOMAIN Before.tagCounters \cup {resp.prefix}
    /\ \A prefix \in DOMAIN Before.tagCounters :
         prefix # resp.prefix => tagCounters[prefix] = Before.tagCounters[prefix]
    /\ (resp.prefix \in DOMAIN Before.tagCounters
          => tagCounters[resp.prefix] # Before.tagCounters[resp.prefix])

\* an allocation has succeeded while a campaign and the counter of another
\* prefix are stored
C17_Witness ==
  /\ Allocated
  /\ campaigns # NoFunction
  /\ \E prefix \in DOMAIN tagCounters : prefix # resp.prefix

\* C18: the tag the allocator renders for a prefix P of the static table,
\* SMS included, and a number n is split by the parse step of reconcile into
\* the same pair (P, n).
C18_RenderedTagSplitsBack ==
  Allocated =>
    /\ resp.tagNumber = FormatTag(resp.prefix, resp.counter)
    /\ WellFormed(resp.tagNumber)
    /\ SplitPrefix(resp.tagNumber) = resp.prefix
    /\ SplitNumber(resp.tagNumber).val = resp.counter

\* C19: when the candidate P<lastNumber+1> is carried by a stored channel,
\* allocate returns P<lastNumber+2> and stores lastNumber+2, whether or not
\* P<lastNumber+2> is itself stored: there is one collision check, no loop.
C19_SingleSkip ==
  (/\ Allocated
   /\ TagExists(Before.campaigns,
                FormatTag(resp.prefix, LastNumber(Before.tagCounters, resp.prefix) + 1)))
    => /\ resp.counter = LastNumber(Before.tagCounters, resp.prefix) + 2
       /\ resp.tagNumber =
            FormatTag(resp.prefix, LastNumber(Before.tagCounters, resp.prefix) + 2)
       /\ tagCounters[resp.prefix] = LastNumber(Before.tagCounters, resp.prefix) + 2

\* an allocation has skipped a stored candidate and returned the next tag,
\* which is stored as well
C19_Witness ==
  /\ Allocated
  /\ resp.counter >= 2
  /\ TagExists(campaigns, FormatTag(resp.prefix, resp.counter - 1))
  /\ TagExists(campaigns, resp.tagNumber)

\* C20: when allocate answers with number k for prefix P, the stored counter
\* of P is k, the counter being created from 0 when it was absent, whether
\* or not a campaign is ever saved with the tag; an allocate for P that
\* follows with no request in between returns a number greater than k.
C20_NumberIsConsumed ==
  Allocated =>
    /\ resp.prefix \in DOMAIN tagCounters
    /\ tagCounters[resp.prefix] = resp.counter
    /\ (resp.prefix \notin DOMAIN Before.tagCounters => resp.counter \in {1, 2})
    /\ ((Follows("generate") /\ Req.previous.prefix = resp.prefix)
          => resp.counter > Req.previous.counter)

\* a second allocation in a row has been answered while no campaign is stored
C20_Witness ==
  /\ Allocated
  /\ Follows("generate")
  /\ resp.counter = 2
  /\ campaigns = NoFunction
  /\ Cardinality(issued) = 2
  /\ tagCounters[resp.prefix] = 2

\* C21: the intra-campaign check runs before the cross-campaign check: a
\* submission that carries a tag twice and a tag of another stored campaign
\* is rejected with the intra-campaign error, and the read of all stored
\* campaigns is made only for a submission without internal duplicate.
C21_IntraCheckFirst ==
  /\ (/\ Validated
      /\ RepeatedTags(Req.channels) # {}
      /\ CarriedBy(Req.channels, Before.campaigns, Others) # {})
       => (resp.status = 400 /\ resp.error = "duplicateInCampaign")
  /\ \A r \in Requests :
       flight[r].pc \in ValidationCalls => RepeatedTags(flight[r].channels) = {}

\* a create was rejected with the intra-campaign error for a tag that a
\* stored campaign carries
C21_Witness ==
  /\ resp.op = "create"
  /\ resp.status = 400
  /\ resp.error = "duplicateInCampaign"
  /\ \E t \in Range(resp.tags) : Str(t) \in StoredValues(campaigns)

\* a tag shorter than 3 characters, or whose part after the first two
\* characters does not parse as a number or parses as a negative one
MalformedTag(tag) ==
  \/ Len(tag) < 3
  \/ SplitNumber(tag).nan
  \/ SplitNumber(tag).val < 0

\* the campaigns without the channels that carry a malformed tag
WithoutMalformed(camps) ==
  [id \in DOMAIN camps |->
     [camps[id] EXCEPT !.channels =
        SelectSeq(@, LAMBDA v : ~(CarriesTag(v) /\ MalformedTag(Trim(v.str))))]]

\* for every prefix, the largest number that a stored tag of at least 3
\* characters carries after its first two: the digits that follow blanks
\* and a sign, read in base 16 behind 0x
Observed(camps) ==
  LET tags == {t \in UNION {SubmittedTags(camps[id].channels) : id \in DOMAIN camps} :
                 ~MalformedTag(t)}
  IN [prefix \in {Substring(t, 0, 2) : t \in tags} |->
        MaxOf({SplitNumber(t).val : t \in {u \in tags : Substring(u, 0, 2) = prefix}})]

\* C22: reconcile skips the stored tags that are shorter than 3 characters
\* or whose suffix is not a non-negative integer, without an error: the run
\* answers with success and leaves the counters as a run on the campaigns
\* without those tags leaves them, every prefix with a well-formed tag at
\* the largest number observed.
C22_MalformedTagsSkipped ==
  Reconciled =>
    /\ resp.status = 200
    /\ tagCounters = SyncedCounters(WithoutMalformed(campaigns), Before.tagCounters)
    /\ \A prefix \in DOMAIN Observed(campaigns) :
         /\ prefix \in DOMAIN tagCounters
         /\ tagCounters[prefix] = Observed(campaigns)[prefix]

\* reconcile has run on campaigns that carry malformed tags beside a tag of
\* a prefix whose counter is stored, while the counter of the prefix of a
\* malformed tag is stored as well
C22_Witness ==
  /\ resp.op \in {"sync", "create", "update"}
  /\ resp.status = 200
  /\ Str(IGShort) \in StoredValues(campaigns)
  /\ Str(FBNegative) \in StoredValues(campaigns)
  /\ Str(IG1) \in StoredValues(campaigns)
  /\ <<"I", "G">> \in DOMAIN tagCounters
  /\ <<"F", "B">> \in DOMAIN tagCounters

\* C23: reconcile changes no campaign document, a duplicated tagNumber
\* included, and no counter of a prefix without an observed well-formed tag:
\* the counters it writes or creates are of prefixes with such a tag.
C23_ReconcileFrame ==
  Reconciled =>
    /\ resp.op = "sync" => campaigns = Before.campaigns
    /\ \A prefix \in DOMAIN Before.tagCounters :
         prefix \notin DOMAIN TagNumbersByPrefix(campaigns)
           => /\ prefix \in DOMAIN tagCounters
              /\ tagCounters[prefix] = Before.tagCounters[prefix]
    /\ DOMAIN tagCounters \subseteq
         DOMAIN Before.tagCounters \cup DOMAIN TagNumbersByPrefix(campaigns)

\* POST /api/tags/sync has run while a tag is stored twice and the stored
\* counter of a prefix has no well-formed stored tag
C23_Witness ==
  /\ resp.op = "sync"
  /\ ~C2_StoredTagsUnique
  /\ \E prefix \in DOMAIN tagCounters :
       /\ prefix \notin DOMAIN TagNumbersByPrefix(campaigns)
       /\ tagCounters[prefix] > 0

\* C24: an operation writes the counters at most once, so an operation
\* during which a store call fails leaves the counters either as they were
\* before it or as the operation leaves them when no call fails, never in
\* between.
C24_NoPartialCounterUpdate ==
  (resp.op # "none" /\ Req.failed # "none") =>
    \/ tagCounters = Before.tagCounters
    \/ /\ resp.op \in {"sync", "create", "update"}
       /\ tagCounters = SyncedCounters(campaigns, Before.tagCounters)
    \/ /\ resp.op = "generate"
       /\ tagCounters = AllocatedAlone(Before.campaigns, Before.tagCounters, Req.prefix)

\* a tagNumber that is missing, not a string, empty or made of blanks
Discarded(v) == ~IsString(v) \/ \A i \in 1..Len(v.str) : v.str[i] \in Whitespace

\* the channels of a submission that carry a tag, each in trimmed form
Kept(channels) ==
  LET carrying == SelectSeq(channels, LAMBDA v : ~Discarded(v))
  IN [k \in DOMAIN carrying |-> Str(Trim(carrying[k].str))]

\* the answer to a campaign write served alone on the store as the request
\* answered found it
ReplyAlone(channels) ==
  IF resp.op = "create" THEN CreateReply(resp.request, channels, Before.campaigns)
  ELSE UpdateReply(resp.request, Req.urlId, channels, Before.campaigns)

\* C25: create and update discard the channels whose tagNumber is missing,
\* not a string, empty or blank before both duplicate checks, and compare
\* the other tags in trimmed form: the answer is that to the submission
\* without those channels and with trimmed tags, a submission of such
\* channels alone passes, and no campaign write ends in a server error.
C25_BlankTagsDiscarded ==
  Validated =>
    /\ resp = ReplyAlone(Kept(Req.channels))
    /\ Kept(Req.channels) = <<>> => resp.status = 200
    /\ resp.status \in {200, 400}

\* C26: when an allocate commits number k for a prefix between the read of
\* the campaigns by a reconcile and the write of that prefix by the same
\* reconcile, the write does not leave the counter of the prefix below k.
C26_OverlappingReconcileKeepsAllocation ==
  [][\A r \in Requests :
       (/\ flight[r].pc = "syncUpdate"
        /\ flight[r].entries # <<>>
        /\ flight'[r].entries = Tail(flight[r].entries)
        /\ Allocated
        /\ resp.prefix = Head(flight[r].entries).prefix)
         => tagCounters'[resp.prefix] >= resp.counter]_vars

\* C27: validation and save of a create act as one step with respect to
\* other campaign writes: of two create requests that carry the same tag,
\* however their reads and writes interleave, at most one is persisted.
C27_OverlappingCreatesExclusive ==
  \A id1 \in DOMAIN campaigns, id2 \in DOMAIN campaigns :
    id1 # id2 =>
      SubmittedTags(campaigns[id1].channels) \cap SubmittedTags(campaigns[id2].channels) = {}

\* request r read no counter of its prefix and its insertOne was accepted
Inserted(r) ==
  /\ flight[r].absent
  /\ flight[r].pc # "insertCounter"
  /\ flight[r].status # 500

\* request r was answered with a server error and without tag
Refused(r) ==
  /\ flight[r].pc = "done"
  /\ flight[r].status = 500
  /\ flight[r].tagNumber = <<>>
  /\ flight[r].number = 0

\* the requests for prefix that read no counter and have made their insertOne
PastInsert(prefix) ==
  {r \in Generates :
     flight[r].prefix = prefix /\ flight[r].absent /\ flight[r].pc # "insertCounter"}

\* C28: of the allocate requests that all read the counter of their prefix
\* as absent, the unique index on prefix accepts the insertOne of one only,
\* so no second counter record of the prefix is ever created; a request
\* whose insertOne is refused ends with a server error and returns no tag.
C28_OneInitialCounter ==
  \A prefix \in TablePrefixes :
    PastInsert(prefix) # {} =>
      /\ Cardinality({r \in PastInsert(prefix) : Inserted(r)}) = 1
      /\ \A r \in PastInsert(prefix) : Inserted(r) \/ Refused(r)
      /\ prefix \in DOMAIN tagCounters

\* of two requests that read no counter of their prefix, one has been
\* answered 200 with a tag and the other 500
C28_Witness ==
  \E r1 \in Requests, r2 \in Requests :
    /\ r1 # r2
    /\ Succeeded(r1) /\ flight[r1].absent
    /\ r2 \in Generates /\ flight[r2].absent /\ Refused(r2)
    /\ flight[r1].prefix = flight[r2].prefix
    /\ flight[r1].prefix \in DOMAIN tagCounters

\* C29: POST compares with every stored campaign: a POST without internal
\* duplicate that carries the campaignId of a stored campaign and a tag
\* that a stored campaign holds, the campaign it names included, is rejected
\* with the cross-campaign error and overwrites nothing.
C29_CreateExcludesNothing ==
  (/\ resp.op = "create"
   /\ WithCampaignId(Before.campaigns, Req.bodyCampaignId) # {}
   /\ RepeatedTags(Req.channels) = {}
   /\ CarriedBy(Req.channels, Before.campaigns, DOMAIN Before.campaigns) # {})
    => /\ resp.status = 400
       /\ resp.error = "duplicateAcrossCampaigns"
       /\ campaigns = Before.campaigns

\* C30: a campaign delete writes no tag counter and runs no reconcile:
\* every counter has the value after the delete that it had before it,
\* whatever the answer to the delete.
C30_DeleteKeepsCounters ==
  resp.op = "delete" => tagCounters = Before.tagCounters

\* a delete has removed the only campaign that carried a tag of a prefix
\* whose counter is stored
C30_Witness ==
  /\ resp.op = "delete"
  /\ resp.status = 200
  /\ \E prefix \in DOMAIN tagCounters :
       /\ tagCounters[prefix] > 0
       /\ prefix \notin DOMAIN TagNumbersByPrefix(campaigns)
  /\ retired # {}

=============================================================================
